---------------------------- MODULE Spec2Model ----------------------------
(***************************************************************************)
(* ModelArena: matching of per-variant folders into test cases             *)
(* (BulkUploadZone), the session state machine of App (SETUP, UPLOAD,      *)
(* ARENA, RESULTS) and the batch export of the representative cases.       *)
(*                                                                         *)
(* Strings are sequences of one-character strings, so that the regular     *)
(* expressions and the default Array.prototype.sort order of the code are  *)
(* computed character by character.  Every event handler runs to           *)
(* completion before the next event is dispatched (one JavaScript thread,  *)
(* React re-renders synchronously after a discrete event), so a handler is *)
(* one action; the asynchronous batch export is one action per segment     *)
(* between two awaits.                                                     *)
(***************************************************************************)
EXTENDS Integers, Sequences, FiniteSets, TLC

VARIABLES
    stage,             \* App: 'SETUP' | 'UPLOAD' | 'ARENA' | 'RESULTS'
    models,            \* App: configured ModelConfig[]
    mediaType,         \* App: 'video' | 'image'
    isBlind,           \* App: blind-mode flag
    caseQueue,         \* App: TestCase[]
    currentCaseIndex,  \* App: index of the active case
    voteHistory,       \* App: VoteResult[]
    isProcessingZip,   \* App: a batch export is running
    zipProgress,       \* App: progress text of the batch export
    modelFiles,        \* BulkUploadZone: modelId -> File[] (keys = loaded ids)
    uploadThrew,       \* BulkUploadZone: a handler ended with a TypeError
    selectedWinner,    \* ComparisonArena: model id | 'TIE' | null
    isRepresentative,  \* ComparisonArena: representative flag of the case
    ratings,           \* ComparisonArena: modelId -> VideoRating
    exports,           \* the running invocations of handleBatchExportZip
    batchLog,          \* what the batch export started last has done so far
    stitch,            \* stitchMedia: the invocation a direct caller made last
    isPlaying,         \* ComparisonArena: play flag of the transport
    currentTime,       \* ComparisonArena: displayed time
    duration,          \* ComparisonArena: derived duration (0 = not known)
    playbackRate,      \* ComparisonArena: selected rate, in hundredths
    videoRefs,         \* ComparisonArena: the bound <video> elements
    displayModels,     \* ComparisonArena: the models in presentation order
    srcUrls,           \* ComparisonArena: modelId -> URL of its source
    urlCleanup,        \* ComparisonArena: the pending cleanup of the URL effect
    objectUrls         \* the object URLs the arena made that are not revoked

appVars    == <<stage, models, mediaType, isBlind, caseQueue,
                currentCaseIndex, voteHistory>>
zipVars    == <<isProcessingZip, zipProgress, exports, batchLog>>
uploadVars == <<modelFiles, uploadThrew>>
arenaVars  == <<selectedWinner, isRepresentative, ratings>>
stitchVars == <<stitch>>
mountVars  == <<displayModels, srcUrls, urlCleanup, objectUrls>>
transportVars == <<isPlaying, currentTime, duration, playbackRate, videoRefs,
                   mountVars>>
mediaVars  == <<stitchVars, transportVars>>
vars       == <<appVars, zipVars, uploadVars, arenaVars, mediaVars>>

---------------------------------------------------------------------------
(* Bounds of the model. *)

\* At most this many valid files are held by the upload zone, all folders
\* together; a folder selection holds at most the capacity that is left.
MaxLoaded == 4

\* At most this many invocations of handleBatchExportZip run at once.
MaxBatches == 2

\* At most this many sources are handed to stitchMedia by a direct caller.
MaxSources == 2

\* The videos shown in the arena last this many time units.
MaxTime == 2

---------------------------------------------------------------------------
(* Characters and strings. *)

\* The characters the model uses, in ascending UTF-16 code unit order.
CharOrder ==
    << ".", "/", "0", "1", "2", "3", "4", "5", "6", "7", "8", "9", "A",
       "_", "a", "b", "c", "e", "f", "g", "i", "m", "n", "o", "p", "r",
       "s", "v", "w" >>

CharCode(c) == CHOOSE i \in 1..Len(CharOrder) : CharOrder[i] = c

\* String.prototype.toLowerCase on one character of CharOrder.
Lower(c) == IF c = "A" THEN "a" ELSE c

LowerStr(s) == [i \in 1..Len(s) |-> Lower(s[i])]

\* s < t in the order Array.prototype.sort uses without a comparator:
\* code unit by code unit, a proper prefix first.
StrLess(s, t) ==
    \E k \in 1..(Len(t)) :
        /\ k - 1 <= Len(s)
        /\ \A j \in 1..(k - 1) : s[j] = t[j]
        /\ \/ k = Len(s) + 1
           \/ k <= Len(s) /\ CharCode(s[k]) < CharCode(t[k])

EndsWith(s, suffix) ==
    /\ Len(suffix) <= Len(s)
    /\ SubSeq(s, Len(s) - Len(suffix) + 1, Len(s)) = suffix

\* Positions of a match of /\.[^/.]+$/ in name: a dot followed, up to the
\* end of the string, by one or more characters other than '/' and '.'.
ExtensionDot(name) ==
    { i \in 1..Len(name) :
        /\ name[i] = "."
        /\ i < Len(name)
        /\ \A j \in (i + 1)..Len(name) : name[j] \notin {"/", "."} }

\* filename.replace(/\.[^/.]+$/, "")
GetBaseName(filename) ==
    IF ExtensionDot(filename) = {} THEN filename
    ELSE SubSeq(filename, 1, (CHOOSE i \in ExtensionDot(filename) : TRUE) - 1)

---------------------------------------------------------------------------
(* Files a folder can hold. *)

NoType == << >>

VideoFile(n, sub) == [name |-> n, type |-> <<"video", sub>>]
ImageFile(n, sub) == [name |-> n, type |-> <<"image", sub>>]
PlainFile(n)      == [name |-> n, type |-> NoType]

RECURSIVE SeqsUpTo(_, _)
SeqsUpTo(S, n) ==
    IF n = 0 THEN { << >> }
    ELSE LET shorter == SeqsUpTo(S, n - 1)
         IN  shorter \cup { Append(s, x) : s \in shorter, x \in S }

A_mp4  == VideoFile(<<"a", ".", "m", "p", "4">>, "mp4")
A_mov  == PlainFile(<<"a", ".", "m", "o", "v">>)
UA_mp4 == VideoFile(<<"A", ".", "m", "p", "4">>, "mp4")
AB_mp4 == VideoFile(<<"a", ".", "b", ".", "m", "p", "4">>, "mp4")
A_png  == ImageFile(<<"a", ".", "p", "n", "g">>, "png")
C_gif  == PlainFile(<<"c", ".", "g", "i", "f">>)

\* a.mp4, a.mov (no MIME type), A.mp4, a.b.mp4, a.png, c.gif (no MIME type)
FilePool == { A_mp4, A_mov, UA_mp4, AB_mp4, A_png, C_gif }

\* The folders a model can be given: in the upload zone on its own, every
\* list of at most n files of the pool; in a whole session, one of four
\* folders.
UploadFolders(n) == SeqsUpTo(FilePool, n)

SessionFolders(n) ==
    { f \in { <<AB_mp4, A_mp4>>, <<A_mov, UA_mp4>>, <<A_png, C_gif>>, <<C_gif>> } :
        Len(f) <= n }

VideoExtensions ==
    { <<"m", "p", "4">>, <<"w", "e", "b", "m">>, <<"m", "o", "v">>,
      <<"m", "k", "v">>, <<"a", "v", "i">> }

ImageExtensions ==
    { <<"j", "p", "g">>, <<"j", "p", "e", "g">>, <<"p", "n", "g">>,
      <<"w", "e", "b", "p">>, <<"g", "i", "f">>, <<"b", "m", "p">> }

\* /\.(ext1|ext2|...)$/i.test(name)
HasExtension(name, extensions) ==
    LET lower == LowerStr(name)
    IN  \E e \in extensions : EndsWith(lower, <<".">> \o e)

\* The filter of handleFolderSelect.
IsValidFile(f, type) ==
    \/ f.type # NoType /\ f.type[1] = type
    \/ type = "video" /\ HasExtension(f.name, VideoExtensions)
    \/ type = "image" /\ HasExtension(f.name, ImageExtensions)

RECURSIVE FilterValid(_, _)
FilterValid(fileList, type) ==
    IF fileList = << >> THEN << >>
    ELSE (IF IsValidFile(Head(fileList), type) THEN <<Head(fileList)>>
          ELSE << >>) \o FilterValid(Tail(fileList), type)

---------------------------------------------------------------------------
(* Session configurations (SetupScreen). *)

MediaTypes == {"video", "image"}

\* MODEL_COLORS
ModelColors == << "#6366f1", "#ec4899", "#10b981", "#f59e0b", "#3b82f6" >>

\* The two models SetupScreen starts with, and the model addModel appends.
TwoModels ==
    << [id |-> "m1", name |-> "Baseline (v1.0)", color |-> ModelColors[1]],
       [id |-> "m2", name |-> "Experimental (v1.1)", color |-> ModelColors[2]] >>

ThreeModels ==
    Append(TwoModels, [id |-> "m3", name |-> "Model C", color |-> ModelColors[3]])

ModelIds(ms) == { ms[k].id : k \in 1..Len(ms) }

\* What SetupScreen hands to onComplete: in the upload zone on its own, two
\* or three models; in a whole session, two models.
UploadConfigs ==
    { [models |-> ms, type |-> t, blind |-> FALSE] :
        ms \in {TwoModels, ThreeModels}, t \in MediaTypes }

SessionConfigs ==
    { [models |-> TwoModels, type |-> "video", blind |-> FALSE],
      [models |-> TwoModels, type |-> "image", blind |-> TRUE] }

---------------------------------------------------------------------------
(* BulkUploadZone: the matcher. *)

\* modelFiles[id]?.length || 0
FileCount(mf, id) == IF id \in DOMAIN mf THEN Len(mf[id]) ELSE 0

TotalLoaded(mf) ==
    LET RECURSIVE Sum(_)
        Sum(ids) == IF ids = {} THEN 0
                    ELSE LET id == CHOOSE x \in ids : TRUE
                         IN  Len(mf[id]) + Sum(ids \ {id})
    IN  Sum(DOMAIN mf)

\* modelFiles[m.id]?.some(f => getBaseName(f.name) === baseName)
SomeFileNamed(mf, id, baseName) ==
    /\ id \in DOMAIN mf
    /\ \E j \in 1..Len(mf[id]) : GetBaseName(mf[id][j].name) = baseName

\* Faulty variant: only the second model is asked for the base name.
ExistsInAllSecondOnly(baseName, mf, ms) ==
    SomeFileNamed(mf, ms[2].id, baseName)

\* models.every(m => m.id === models[0].id || modelFiles[m.id]?.some(...))
ExistsInAll(baseName, mf, ms) ==
    \A k \in 1..Len(ms) :
        \/ ms[k].id = ms[1].id
        \/ SomeFileNamed(mf, ms[k].id, baseName)

\* Faulty variant: a base name seen before is taken again.
RECURSIVE CommonBaseNamesRepeated(_, _, _, _)
CommonBaseNamesRepeated(files, processedBaseNames, mf, ms) ==
    IF files = << >> THEN << >>
    ELSE LET baseName == GetBaseName(Head(files).name)
         IN  (IF ExistsInAll(baseName, mf, ms) THEN <<baseName>> ELSE << >>)
             \o CommonBaseNamesRepeated(Tail(files), processedBaseNames, mf, ms)

\* The forEach over the first model's files: the base names not seen before
\* that exist in all other models, in the order of the first model's files.
RECURSIVE CommonBaseNames(_, _, _, _)
CommonBaseNames(files, processedBaseNames, mf, ms) ==
    IF files = << >> THEN << >>
    ELSE LET baseName == GetBaseName(Head(files).name)
         IN  IF baseName \in processedBaseNames
             THEN CommonBaseNames(Tail(files), processedBaseNames, mf, ms)
             ELSE (IF ExistsInAll(baseName, mf, ms) THEN <<baseName>> ELSE << >>)
                  \o CommonBaseNames(Tail(files),
                                     processedBaseNames \cup {baseName}, mf, ms)

RECURSIVE InsertSorted(_, _)
InsertSorted(x, sorted) ==
    IF sorted = << >> THEN <<x>>
    ELSE IF StrLess(x, Head(sorted)) THEN <<x>> \o sorted
    ELSE <<Head(sorted)>> \o InsertSorted(x, Tail(sorted))

\* Faulty variant: the names stay in the order of the first model's files.
SortStringsUnsorted(names) == names

\* Array.prototype.sort() without a comparator, on strings.
RECURSIVE SortStrings(_)
SortStrings(names) ==
    IF names = << >> THEN << >>
    ELSE InsertSorted(names[Len(names)],
                      SortStrings(SubSeq(names, 1, Len(names) - 1)))

\* The useMemo 'matches'.
Matches(mf, ms) ==
    IF Cardinality(DOMAIN mf) < Len(ms) THEN << >>
    ELSE LET firstModelFiles ==
                 IF ms[1].id \in DOMAIN mf THEN mf[ms[1].id] ELSE << >>
         IN  SortStrings(CommonBaseNames(firstModelFiles, {}, mf, ms))

\* matches.length > 0 && Object.keys(modelFiles).length === models.length
IsReady(mf, ms) ==
    /\ Len(Matches(mf, ms)) > 0
    /\ Cardinality(DOMAIN mf) = Len(ms)

\* Number.prototype.toString of a natural number.
Digits == << "0", "1", "2", "3", "4", "5", "6", "7", "8", "9" >>

RECURSIVE Decimal(_)
Decimal(n) ==
    IF n < 10 THEN << Digits[n + 1] >>
    ELSE Decimal(n \div 10) \o << Digits[(n % 10) + 1] >>

\* `case-${idx}`
CaseId(idx) == <<"c", "a", "s", "e", "-">> \o Decimal(idx)

\* The value of Array.prototype.find when no element qualifies.
Undefined == [undefined |-> TRUE]

\* Faulty variant: the file name is compared with its extension.
FindFileExact(files, baseName) ==
    LET hits == { j \in 1..Len(files) : files[j].name = baseName }
    IN  IF hits = {} THEN Undefined
        ELSE files[CHOOSE j \in hits : \A h \in hits : j <= h]

\* Faulty variant: the last file with the base name.
FindLastFile(files, baseName) ==
    LET hits == { j \in 1..Len(files) : GetBaseName(files[j].name) = baseName }
    IN  IF hits = {} THEN Undefined
        ELSE files[CHOOSE j \in hits : \A h \in hits : h <= j]

\* files.find(f => getBaseName(f.name) === baseName)
FindFile(files, baseName) ==
    LET hits == { j \in 1..Len(files) : GetBaseName(files[j].name) = baseName }
    IN  IF hits = {} THEN Undefined
        ELSE files[CHOOSE j \in hits : \A h \in hits : j <= h]

\* One VideoSource of handleStart.
MakeSource(m, baseName, mf) ==
    LET file == FindFile(mf[m.id], baseName)
    IN  [ modelId |-> m.id,
          file    |-> file,
          name    |-> IF file # Undefined THEN file.name ELSE baseName ]

\* The queue handleStart builds from matches.
BuildQueue(matches, mf, ms) ==
    [ idx \in 1..Len(matches) |->
        [ id      |-> CaseId(idx - 1),
          name    |-> matches[idx],
          sources |-> [k \in 1..Len(ms) |-> MakeSource(ms[k], matches[idx], mf)] ] ]

\* modelFiles[m.id].find(...) on a model without an entry is a TypeError.
BuildQueueThrows(mf, ms) == \E k \in 1..Len(ms) : ms[k].id \notin DOMAIN mf

---------------------------------------------------------------------------
(* App and ComparisonArena: votes. *)

\* selectedWinner before a choice is made.
Null == "null"

\* The VoteResult handleConfirm hands to onNext.  timestamp, ratings and
\* duration are carried along unread by the operations modelled here.
MakeVoteResult(testCase, winner, rated, representative) ==
    [ caseId           |-> testCase.id,
      caseName         |-> testCase.name,
      winnerModelId    |-> winner,
      ratings          |-> rated,
      isRepresentative |-> representative ]

\* The scores of the score buttons, [0, 0.5, 1], in tenths.
Scores == {0, 5, 10}

\* Faulty variant: the rating a model starts a case with is a full score.
InitialRatingFull == [score |-> 10, isAmazing |-> FALSE, note |-> ""]

\* { score: 0, isAmazing: false, note: '' }
InitialRating == [score |-> 0, isAmazing |-> FALSE, note |-> ""]

\* useState({}) of ratings.
NoRatings == << >>

\* Faulty variant: only the first model gets a rating.
InitialRatingsOfFirst(ms) == [id \in {ms[1].id} |-> InitialRating]

\* initialRatings of the effect on the test case: one entry per model.
InitialRatings(ms) ==
    [id \in { ms[k].id : k \in 1..Len(ms) } |-> InitialRating]

\* ratings[model.id] || { score: 0, isAmazing: false, note: '' }
RatingOf(rated, modelId) ==
    IF modelId \in DOMAIN rated THEN rated[modelId] ELSE InitialRating

\* { ...prev[modelId], ...updates }
Merge(rating, updates) ==
    [f \in DOMAIN rating \cup DOMAIN updates |->
        IF f \in DOMAIN updates THEN updates[f] ELSE rating[f]]

\* Faulty variant: the update goes to the first entry of the ratings.
updateRatingOfFirst(prev, modelId, updates) ==
    LET first == CHOOSE id \in DOMAIN prev : TRUE
    IN  [id \in DOMAIN prev |->
            IF id = first THEN Merge(prev[id], updates) ELSE prev[id]]

\* updateRating: { ...prev, [modelId]: { ...prev[modelId], ...updates } }
updateRating(prev, modelId, updates) ==
    [id \in DOMAIN prev \cup {modelId} |->
        IF id = modelId
        THEN Merge(IF id \in DOMAIN prev THEN prev[id] ELSE << >>, updates)
        ELSE prev[id]]

\* Faulty variant: the marked results come latest first.
RECURSIVE RepCasesReversed(_)
RepCasesReversed(history) ==
    IF history = << >> THEN << >>
    ELSE RepCasesReversed(Tail(history))
         \o (IF Head(history).isRepresentative THEN <<Head(history)>> ELSE << >>)

\* voteHistory.filter(r => r.isRepresentative)
RECURSIVE RepCases(_)
RepCases(history) ==
    IF history = << >> THEN << >>
    ELSE (IF Head(history).isRepresentative THEN <<Head(history)>> ELSE << >>)
         \o RepCases(Tail(history))

---------------------------------------------------------------------------
(* handleBatchExportZip. *)

NoProgress  == [kind |-> "empty"]
Compressing == [kind |-> "compressing"]

\* `Processing ${i + 1}/${repCases.length}: ${testCase.name}`
Processing(i, total, name) ==
    [kind |-> "processing", position |-> i, total |-> total, name |-> name]

Png  == <<"p", "n", "g">>
Mp4  == <<"m", "p", "4">>
Webm == <<"w", "e", "b", "m">>

ComparisonSuffix ==
    <<"_", "c", "o", "m", "p", "a", "r", "i", "s", "o", "n", ".">>

\* `${cleanName}_comparison.${extension}` with
\* cleanName = testCase.name.replace(/\.[^/.]+$/, "")
EntryName(caseName, extension) ==
    GetBaseName(caseName) \o ComparisonSuffix \o extension

EmptyZip == << >>

\* JSZip.file(name, data): adds the entry, or replaces the entry of that name.
ZipFile(zip, name, data) ==
    [n \in DOMAIN zip \cup {name} |-> IF n = name THEN data ELSE zip[n]]

\* The blob stitchMedia resolves with: the composite of one test case.
Artifact(testCase) == [kind |-> "composite", caseId |-> testCase.id]

\* Faulty variant: the tabular report is packed with the composites.
GenerateWithReport(zip) ==
    ZipFile(zip, <<"r", "e", "p", "o", "r", "t">>, [kind |-> "report"])

\* zip.generateAsync({ type: 'blob' }): the archive holds what zip holds.
GenerateAsync(zip) == zip

\* caseQueue.find(c => c.id === caseId): its index, or 0 for undefined.
FindCase(queue, caseId) ==
    LET hits == { j \in 1..Len(queue) : queue[j].id = caseId }
    IN  IF hits = {} THEN 0 ELSE CHOOSE j \in hits : \A h \in hits : j <= h

\* The extensions stitchMedia can resolve with: 'png' for images; for videos
\* 'mp4' or 'webm', by the recording formats the browser supports.
StitchExtensions(type) == IF type = "image" THEN {Png} ELSE {Mp4, Webm}

---------------------------------------------------------------------------
(* stitchMedia: one invocation, as a record that its events rewrite.       *)
(* Each event is one task of the event loop with the microtasks it runs:   *)
(* a source's load or error event with the continuation of Promise.all,    *)
(* the toBlob callback, a settled play() promise, an animation frame, the  *)
(* recorder's stop event.                                                  *)

\* Native sizes <<width, height>> a decoded source can report; a source
\* without a picture track reports <<0, 0>>.
SourceSizes == { <<0, 0>>, <<100, 50>>, <<200, 50>>, <<100, 100>> }

NoSize == << >>

\* || 720
DefaultHeight == 720

NoCanvas == [created |-> FALSE]

NoResult == [settled |-> FALSE]

NoSourcesMsg == "No sources provided"
ImageContextMsg == "Canvas context failed"
VideoContextMsg == "Could not get canvas context"
ImageBlobMsg == "Failed to create image blob"
ImageLoadMsg(name) == <<"Failed to load image: ", name>>
VideoLoadMsg(name) == <<"Failed to load video: ", name>>
\* The NotSupportedError that `new MediaRecorder` throws for a mimeType the
\* user agent cannot record.
NotSupportedMsg == "NotSupportedError"

\* The preference list of recording formats, each as the parts of its text.
mimeTypes ==
    << <<"video/", "mp4">>,
       <<"video/", "mp4", ";codecs=", "avc1">>,
       <<"video/", "mp4", ";codecs=", "h264">>,
       <<"video/", "webm", ";codecs=", "h264">>,
       <<"video/", "webm", ";codecs=", "vp9">>,
       <<"video/", "webm">> >>

\* if (!selectedMimeType) selectedMimeType = 'video/webm'
FallbackMimeType == <<"video/", "webm">>

\* What MediaRecorder.isTypeSupported can answer: any set of the formats.
SupportedSets == SUBSET { mimeTypes[j] : j \in 1..Len(mimeTypes) }

\* The loop over mimeTypes with its break, and the fallback after it.
SelectMimeType(supported) ==
    LET hits == { j \in 1..Len(mimeTypes) : mimeTypes[j] \in supported }
    IN  IF hits = {} THEN FallbackMimeType
        ELSE mimeTypes[CHOOSE j \in hits : \A h \in hits : j <= h]

\* selectedMimeType.includes('mp4') ? 'mp4' : 'webm'
ExtensionOf(mimeType) ==
    IF \E j \in 1..Len(mimeType) : mimeType[j] = "mp4" THEN Mp4 ELSE Webm

\* Faulty variant: the recorder is built whatever the format.
RecorderAlwaysBuilt(supported) == TRUE

\* new MediaRecorder(stream, { mimeType }) returns a recorder; it throws
\* when the user agent cannot record the format.
RecorderBuilt(supported) == SelectMimeType(supported) \in supported

\* No invocation yet.
IdleStitch ==
    [ pc |-> "idle", mediaType |-> "video", sources |-> << >>,
      models |-> << >>, status |-> << >>, size |-> << >>, urls |-> {},
      canvas |-> NoCanvas,
      ctx |-> "none", recorder |-> "none", extension |-> << >>,
      frame |-> FALSE, result |-> NoResult ]

Indices(s) == 1..Len(s.sources)

\* reject(err): the promise of stitchMedia is rejected, with no blob.
RejectWith(s, msg) ==
    [s EXCEPT !.pc = "rejected",
              !.result = [settled |-> TRUE, ok |-> FALSE, error |-> msg]]

\* The widths of the first n sources added up (currentX after n tiles).
RECURSIVE SumWidths(_, _)
SumWidths(size, n) ==
    IF n = 0 THEN 0 ELSE SumWidths(size, n - 1) + size[n][1]

\* models.find(m => m.id === modelId)?.name || 'Unknown'
ModelName(ms, modelId) ==
    LET found == { k \in 1..Len(ms) : ms[k].id = modelId }
    IN  IF found = {} THEN "Unknown"
        ELSE LET m == ms[CHOOSE k \in found : \A h \in found : k <= h]
             IN  IF m.name = "" THEN "Unknown" ELSE m.name

\* Faulty variant: the label of tile i is the name of the i-th model.
TilesByModelIndex(s) ==
    [i \in Indices(s) |->
        [ source |-> s.sources[i],
          x      |-> SumWidths(s.size, i - 1),
          label  |-> IF i <= Len(s.models) /\ s.models[i].name # ""
                     THEN s.models[i].name ELSE "Unknown" ]]

\* What the forEach of the draw loop puts on the canvas, in its order:
\* source index draws at currentX, with the label of its model, and
\* currentX goes on by the width of the source.
Tiles(s) ==
    [i \in Indices(s) |->
        [ source |-> s.sources[i],
          x      |-> SumWidths(s.size, i - 1),
          label  |-> ModelName(s.models, s.sources[i].modelId) ]]

\* resolve({ blob, extension }): the blob is the picture of the canvas with
\* the sources drawn on it.
ResolveWith(s, extension) ==
    [s EXCEPT !.pc = "resolved",
              !.result = [settled |-> TRUE, ok |-> TRUE,
                          blob |-> [canvas |-> s.canvas, tiles |-> Tiles(s)],
                          extension |-> extension]]

\* URL.revokeObjectURL on the src of every element (each src is a blob: URL).
RevokeAll(s) == [s EXCEPT !.urls = {}]

\* stitchMedia up to its first await: the empty list throws; otherwise one
\* element per source, each with a fresh object URL of the source's file.
StartStitch(sources, ms, type) ==
    LET s == [IdleStitch EXCEPT !.mediaType = type, !.sources = sources,
                                !.models = ms]
    IN  IF Len(sources) = 0 THEN RejectWith(s, NoSourcesMsg)
        ELSE [s EXCEPT !.pc = "loading",
                       !.status = [i \in 1..Len(sources) |-> "loading"],
                       !.size = [i \in 1..Len(sources) |-> NoSize],
                       !.urls = 1..Len(sources)]

\* reduce((acc, v) => acc + v.width, 0)
TotalWidth(s) == SumWidths(s.size, Len(s.size))

\* Faulty variant: the height of the first source.
FirstHeight(s) == s.size[1][2]

\* Math.max(...heights)
MaxOfHeights(s) ==
    CHOOSE h \in { s.size[i][2] : i \in Indices(s) } :
        \A i \in Indices(s) : s.size[i][2] <= h

\* Math.max(...heights) || 720
MaxHeight(s) == IF MaxOfHeights(s) = 0 THEN DefaultHeight ELSE MaxOfHeights(s)

\* canvas.width = totalWidth; canvas.height = maxHeight
MakeCanvas(s) ==
    [created |-> TRUE, width |-> TotalWidth(s), height |-> MaxHeight(s)]

AllLoadedSources(s) == \A i \in Indices(s) : s.status[i] = "loaded"

\* The continuation of `await Promise.all(loadPromises)` in the image path:
\* the canvas, its context (ctxOk: getContext returned one), the drawing and
\* the call of toBlob.
ImagesLoaded(s, ctxOk) ==
    LET c == [s EXCEPT !.canvas = MakeCanvas(s),
                       !.ctx = IF ctxOk THEN "2d" ELSE "null"]
    IN  IF ~ctxOk THEN RejectWith(c, ImageContextMsg)
        ELSE [c EXCEPT !.pc = "encoding"]

\* The continuation of `await Promise.all(loadedPromises)` in the video
\* path: the canvas, its context, the recorder of the format the browser
\* supports, recorder.start() and play() on every element.
VideosLoaded(s, ctxOk, supported) ==
    LET c == [s EXCEPT !.canvas = MakeCanvas(s),
                       !.ctx = IF ctxOk THEN "2d" ELSE "null"]
    IN  IF ~ctxOk THEN RejectWith(c, VideoContextMsg)
        ELSE IF ~RecorderBuilt(supported) THEN RejectWith(c, NotSupportedMsg)
        ELSE [c EXCEPT !.pc = "starting",
                       !.extension = ExtensionOf(SelectMimeType(supported)),
                       !.recorder = "recording",
                       !.status = [i \in Indices(s) |-> "starting"]]

\* img.onload / vid.onloadeddata of source i, which reports its native
\* size; with the last one Promise.all resolves.  After a rejection the
\* event changes the element only.
SourceLoaded(s, i, size, ctxOk, supported) ==
    LET l == [s EXCEPT !.status[i] = "loaded", !.size[i] = size]
    IN  IF s.pc # "loading" \/ ~AllLoadedSources(l) THEN l
        ELSE IF s.mediaType = "image" THEN ImagesLoaded(l, ctxOk)
        ELSE VideosLoaded(l, ctxOk, supported)

\* Faulty variant: the recorder is stopped as soon as one source has ended.
SomeEnded(s) == \E i \in Indices(s) : s.status[i] = "ended"

\* videos.every(v => v.ended)
AllEnded(s) == \A i \in Indices(s) : s.status[i] = "ended"

\* Faulty variant: the next frame is requested after the stop as well.
DrawFrameAlways(s) ==
    IF s.recorder # "recording" THEN [s EXCEPT !.frame = FALSE]
    ELSE IF AllEnded(s)
         THEN [s EXCEPT !.recorder = "inactive", !.frame = TRUE,
                        !.pc = "stopping"]
         ELSE [s EXCEPT !.frame = TRUE, !.pc = "rendering"]

\* drawFrame: every source is drawn; while the recorder records, it is
\* stopped when every source has ended, and otherwise the next frame is
\* requested.
DrawFrame(s) ==
    IF s.recorder # "recording" THEN [s EXCEPT !.frame = FALSE]
    ELSE IF AllEnded(s)
         THEN [s EXCEPT !.recorder = "inactive", !.frame = FALSE,
                        !.pc = "stopping"]
         ELSE [s EXCEPT !.frame = TRUE, !.pc = "rendering"]

\* Faulty variant: a source that fails to load is left out.
SourceErrorSkipped(s, i) ==
    LET l == [s EXCEPT !.status[i] = "failed"]
    IN  IF \A j \in Indices(s) : l.status[j] \in {"failed", "loaded"}
        THEN [l EXCEPT !.pc = "encoding"]
        ELSE l

\* img.onerror / vid.onerror of source i: rej(new Error(...)).  The first
\* rejection rejects Promise.all and, in the catch block, the invocation;
\* on a promise that is settled already rej does nothing.  An element that
\* breaks after it has loaded stops for good without having ended, and its
\* pending play() promise is rejected.
SourceError(s, i) ==
    LET l == [s EXCEPT !.status[i] = IF s.status[i] = "loading"
                                     THEN "failed" ELSE "broken"]
    IN  IF s.pc = "loading" /\ s.status[i] = "loading"
        THEN RejectWith(l, IF s.mediaType = "image"
                           THEN ImageLoadMsg(s.sources[i].name)
                           ELSE VideoLoadMsg(s.sources[i].name))
        ELSE IF /\ s.pc = "starting"
                /\ s.status[i] = "starting"
                /\ \A j \in Indices(s) : l.status[j] # "starting"
             THEN DrawFrame(l)
             ELSE l

\* The callback of canvas.toBlob.
BlobCallback(s, blobOk) ==
    IF blobOk THEN ResolveWith(RevokeAll(s), Png)
    ELSE RejectWith(s, ImageBlobMsg)

\* The promise of v.play() on source i settles: it resolves when playback
\* has started and rejects (caught, with a warning) when it is blocked.
\* With the last one `await Promise.all(...)` goes on to drawFrame().
PlaySettled(s, i, started) ==
    LET l == [s EXCEPT !.status[i] = IF started THEN "playing" ELSE "blocked"]
    IN  IF \E j \in Indices(s) : l.status[j] = "starting" THEN l
        ELSE DrawFrame(l)

\* Source i plays to its end: v.ended becomes true.
SourceEnded(s, i) == [s EXCEPT !.status[i] = "ended"]

\* recorder.onstop
RecorderOnStop(s) == ResolveWith(RevokeAll(s), s.extension)

---------------------------------------------------------------------------
(* handleBatchExportZip: its invocations. *)

NoArchive == [offered |-> FALSE]

NoBatch ==
    [ queue |-> << >>, marked |-> << >>, started |-> << >>, resolved |-> 0,
      rejected |-> 0, alerts |-> 0, startedAtAlert |-> 0,
      archive |-> NoArchive ]

\* The loop of handleBatchExportZip from index p.i up to its next await:
\* the first marked case from p.i on that is found in the queue is handed
\* to stitchMedia; when there is none the archive is generated.
NextStitch(p) ==
    { j \in p.i..Len(p.repCases) : FindCase(p.caseQueue, p.repCases[j].caseId) # 0 }

RunLoop(p) ==
    IF NextStitch(p) = {}
    THEN [p EXCEPT !.pc = "compressing", !.stitch = IdleStitch]
    ELSE LET i == CHOOSE j \in NextStitch(p) : \A h \in NextStitch(p) : j <= h
             testCase == p.caseQueue[FindCase(p.caseQueue, p.repCases[i].caseId)]
         IN  [p EXCEPT !.pc = "stitching",
                       !.i = i,
                       !.stitch = StartStitch(testCase.sources, p.models,
                                              p.mediaType)]

\* The test case the invocation p is compositing.
StitchedCase(p) == p.caseQueue[FindCase(p.caseQueue, p.repCases[p.i].caseId)]

\* Faulty variant: the position counts from 0.
ProgressFromZero(p) ==
    IF p.pc = "stitching"
    THEN Processing(p.i - 1, Len(p.repCases), StitchedCase(p).name)
    ELSE Compressing

\* The progress text after the segment that leaves the invocation at p.
ProgressOf(p) ==
    IF p.pc = "stitching"
    THEN Processing(p.i, Len(p.repCases), StitchedCase(p).name)
    ELSE Compressing

\* batchLog after the segment that leaves the invocation at p.
LogStart(log, p) ==
    IF p.pc = "stitching"
    THEN [log EXCEPT !.started = Append(@, StitchedCase(p).id)]
    ELSE log

Running(pc) == { k \in 1..Len(exports) : exports[k].pc = pc }

\* The composite operations in flight.
InFlight == Cardinality(Running("stitching"))

RemoveAt(seq, k) == SubSeq(seq, 1, k - 1) \o SubSeq(seq, k + 1, Len(seq))


---------------------------------------------------------------------------
(* ComparisonArena: the transport and the <video> elements it is bound to. *)

\* useState(1) of playbackRate, and an element's defaultPlaybackRate.
DefaultRate == 100

\* Rates of the speed menu, in hundredths (0.5, 1.0, 2.0 of the six).
PlaybackRates == {50, 100, 200}

\* A <video> element that has loaded nothing: paused, at 0, at the default
\* rate, its duration unknown (NaN, here 0).
NewElement ==
    [paused |-> TRUE, currentTime |-> 0, playbackRate |-> DefaultRate,
     duration |-> 0]

\* The element's src attribute is set to another URL: the media element
\* load algorithm pauses it, rewinds it and sets its rate to the default.
LoadSrc(el) == NewElement

\* videoRefs.current[idx] of a slot that renders no <video>.
NoElement == [null |-> TRUE]

\* Faulty variant: the ref callback leaves the element's rate alone.
RefCallbackIdle(el, rate) == el

\* ref={(el) => { videoRefs.current[idx] = el; if (el) el.playbackRate = playbackRate; }}
RefCallback(el, rate) == [el EXCEPT !.playbackRate = rate]

\* src.file / src.url of a VideoSource are set.
HasFile(src) == src.file # Undefined
HasUrl(src) == "url" \in DOMAIN src

\* !!srcUrls[model.id], srcUrls being built from the sources that have a
\* file or a url.
HasSource(testCase, modelId) ==
    \E k \in 1..Len(testCase.sources) :
        /\ testCase.sources[k].modelId = modelId
        /\ HasFile(testCase.sources[k]) \/ HasUrl(testCase.sources[k])

\* URL.createObjectURL(file): a blob: URL that no live object URL has.
CreateObjectURL(store) ==
    <<"blob:", CHOOSE n \in 1..(Cardinality(store) + 1) :
                  /\ <<"blob:", n>> \notin store
                  /\ \A h \in 1..(n - 1) : <<"blob:", h>> \in store>>

\* The body of the URL effect from source k on: urls[src.modelId] is a new
\* object URL for a source with a file, the url itself for a remote one.
RECURSIVE LoadUrls(_, _, _, _)
LoadUrls(sources, k, urls, store) ==
    IF k > Len(sources) THEN [urls |-> urls, store |-> store]
    ELSE LET src == sources[k]
         IN  IF HasFile(src)
             THEN LET u == CreateObjectURL(store)
                  IN  LoadUrls(sources, k + 1, (src.modelId :> u) @@ urls,
                               store \cup {u})
             ELSE IF HasUrl(src)
             THEN LoadUrls(sources, k + 1, (src.modelId :> src.url) @@ urls,
                           store)
             ELSE LoadUrls(sources, k + 1, urls, store)

NoCleanup == [pending |-> FALSE]

\* The function the URL effect returns, with what it closes over.
CleanupOf(testCase, urls) ==
    [pending |-> TRUE, sources |-> testCase.sources, urls |-> urls]

\* The URLs the cleanup hands to URL.revokeObjectURL, in its order.
RECURSIVE Revocations(_, _)
Revocations(c, k) ==
    IF k > Len(c.sources) THEN << >>
    ELSE LET src == c.sources[k]
         IN  IF HasFile(src) /\ src.modelId \in DOMAIN c.urls
             THEN <<c.urls[src.modelId]>> \o Revocations(c, k + 1)
             ELSE Revocations(c, k + 1)

\* Faulty variant: the cleanup revokes nothing.
CleanupIdle(c, store) == store

\* The live object URLs after the cleanup has run.
Cleanup(c, store) ==
    IF ~c.pending THEN store
    ELSE store \ { Revocations(c, 1)[j] : j \in 1..Len(Revocations(c, 1)) }

\* [...models].sort(() => Math.random() - 0.5): with a comparator that
\* answers at random the order of the result is the engine's choice among
\* the orders of the same models.
Shuffled(ms) ==
    { [i \in 1..Len(ms) |-> ms[perm[i]]] : perm \in Permutations(1..Len(ms)) }

\* Faulty variant: the order is randomized without blind mode as well.
DisplayOrdersAlwaysShuffled(ms, blind) == Shuffled(ms)

\* What the effect on the test case hands to setDisplayModels.
DisplayOrders(ms, blind) == IF blind THEN Shuffled(ms) ELSE {ms}

\* What a slot shows in its media area.
SlotContent(testCase, model, type) ==
    IF ~HasSource(testCase, model.id) THEN "No Source"
    ELSE IF type = "video" THEN "video" ELSE "img"

\* Faulty variant: one missing source empties every slot.
RenderElementsAllOrNone(testCase, display, type, rate) ==
    IF type = "video"
         /\ \A idx \in 1..Len(display) : HasSource(testCase, display[idx].id)
    THEN [idx \in 1..Len(display) |-> RefCallback(NewElement, rate)]
    ELSE [idx \in 1..Len(display) |-> NoElement]

\* The refs after a render of a test case: in video mode one <video> per
\* slot whose model has a source, at its display index.
RenderElements(testCase, display, type, rate) ==
    IF type = "video"
    THEN [idx \in 1..Len(display) |->
            IF SlotContent(testCase, display[idx], type) = "video"
            THEN RefCallback(NewElement, rate)
            ELSE NoElement]
    ELSE << >>

\* The element of a model (elements are keyed by model.id), a new one when
\* the model had none.
ElementOf(refs, display, modelId) ==
    LET at == { idx \in 1..Len(refs) :
                  display[idx].id = modelId /\ refs[idx] # NoElement }
    IN  IF at = {} THEN NewElement ELSE refs[CHOOSE idx \in at : TRUE]

\* The refs after the test case has changed: every element moves to the
\* slot of its model and gets the object URL of its new source, then the
\* ref callback runs on it.
ReloadElements(refs, display, testCase, newDisplay, type, rate) ==
    IF type = "video"
    THEN [idx \in 1..Len(newDisplay) |->
            IF SlotContent(testCase, newDisplay[idx], type) = "video"
            THEN RefCallback(LoadSrc(ElementOf(refs, display,
                                               newDisplay[idx].id)), rate)
            ELSE NoElement]
    ELSE << >>

\* Faulty variant: only the first element gets the command.
BroadcastFirst(refs, nextState) ==
    [i \in 1..Len(refs) |->
        IF i = 1 /\ refs[i] # NoElement
        THEN [refs[i] EXCEPT !.paused = ~nextState] ELSE refs[i]]

\* videoRefs.current.forEach(video => { if (video) nextState ? video.play() : video.pause() })
Broadcast(refs, nextState) ==
    [i \in 1..Len(refs) |->
        IF refs[i] = NoElement THEN NoElement
        ELSE [refs[i] EXCEPT !.paused = ~nextState]]

\* The element seeks to time, or to its end when time is past it.
SeekTo(el, time) ==
    IF el.duration # 0 /\ time > el.duration THEN el.duration ELSE time

\* Faulty variant: the last element is left where it is.
SeekAllButLast(refs, time) ==
    [i \in 1..Len(refs) |->
        IF refs[i] = NoElement \/ i = Len(refs) THEN refs[i]
        ELSE [refs[i] EXCEPT !.currentTime = SeekTo(refs[i], time)]]

\* videoRefs.current.forEach(video => { if (video) video.currentTime = time })
SeekAll(refs, time) ==
    [i \in 1..Len(refs) |->
        IF refs[i] = NoElement THEN NoElement
        ELSE [refs[i] EXCEPT !.currentTime = SeekTo(refs[i], time)]]

\* Faulty variant: only the first element gets the rate.
SetRateFirst(refs, rate) ==
    [i \in 1..Len(refs) |->
        IF i = 1 /\ refs[i] # NoElement
        THEN [refs[i] EXCEPT !.playbackRate = rate] ELSE refs[i]]

\* videoRefs.current.forEach(video => { if (video) video.playbackRate = rate })
SetRateAll(refs, rate) ==
    [i \in 1..Len(refs) |->
        IF refs[i] = NoElement THEN NoElement
        ELSE [refs[i] EXCEPT !.playbackRate = rate]]

\* videoRefs.current.find(v => v !== null)
ActiveRef(refs) ==
    LET bound == { i \in 1..Len(refs) : refs[i] # NoElement }
    IN  IF bound = {} THEN NoElement
        ELSE refs[CHOOSE i \in bound : \A j \in bound : i <= j]

\* Faulty variant: togglePlay without its check of the media type.
togglePlayAnyType(t, type) ==
    [t EXCEPT !.isPlaying = ~t.isPlaying,
              !.videoRefs = Broadcast(t.videoRefs, ~t.isPlaying)]

\* togglePlay, on the state t of the transport.
togglePlay(t, type) ==
    IF type # "video" THEN t
    ELSE [t EXCEPT !.isPlaying = ~t.isPlaying,
                   !.videoRefs = Broadcast(t.videoRefs, ~t.isPlaying)]

\* handleSeek with the value of the timeline.
handleSeek(t, type, time) ==
    IF type # "video" THEN t
    ELSE [t EXCEPT !.currentTime = time,
                   !.videoRefs = SeekAll(t.videoRefs, time)]

\* handleTimeUpdate
handleTimeUpdate(t, type) ==
    IF type # "video" \/ ActiveRef(t.videoRefs) = NoElement THEN t
    ELSE LET activeRef == ActiveRef(t.videoRefs)
         IN  [t EXCEPT !.currentTime = activeRef.currentTime,
                       !.duration = IF t.duration = 0 /\ activeRef.duration # 0
                                    THEN activeRef.duration
                                    ELSE t.duration]

\* changePlaybackRate
changePlaybackRate(t, type, rate) ==
    IF type # "video" THEN t
    ELSE [t EXCEPT !.playbackRate = rate,
                   !.videoRefs = SetRateAll(t.videoRefs, rate)]

\* Fixed palette of the blind mode.
BLIND_PALETTE == << "#3b82f6", "#f43f5e", "#eab308", "#22c55e", "#a855f7" >>

\* `Option ${idx + 1}`, idx counted from 0.
OptionName(idx) == <<"Option ", idx + 1>>

\* Faulty variant: the model's own color.
DisplayColorOfModel(blind, model, idx) == model.color

\* displayName and displayColor of the slot and of the winner button at
\* display index idx (from 0).
DisplayName(blind, model, idx) == IF blind THEN OptionName(idx) ELSE model.name

DisplayColor(blind, model, idx) ==
    IF blind THEN BLIND_PALETTE[(idx % Len(BLIND_PALETTE)) + 1] ELSE model.color

\* The name and the color each slot and each winner button shows, by
\* display index.
Labels(blind, display) ==
    [i \in 1..Len(display) |->
        [name  |-> DisplayName(blind, display[i], i - 1),
         color |-> DisplayColor(blind, display[i], i - 1)]]

---------------------------------------------------------------------------
(* The state after construction. *)

Init ==
    /\ stage = "SETUP"
    /\ models = << >>
    /\ mediaType = "video"
    /\ isBlind = FALSE
    /\ caseQueue = << >>
    /\ currentCaseIndex = 0
    /\ voteHistory = << >>
    /\ isProcessingZip = FALSE
    /\ zipProgress = NoProgress
    /\ modelFiles = << >>
    /\ uploadThrew = FALSE
    /\ selectedWinner = Null
    /\ isRepresentative = FALSE
    /\ ratings = NoRatings
    /\ exports = << >>
    /\ batchLog = NoBatch
    /\ stitch = IdleStitch
    /\ isPlaying = FALSE
    /\ currentTime = 0
    /\ duration = 0
    /\ playbackRate = DefaultRate
    /\ videoRefs = << >>
    /\ displayModels = << >>
    /\ srcUrls = << >>
    /\ urlCleanup = NoCleanup
    /\ objectUrls = {}

---------------------------------------------------------------------------
(* App: setup, start of a queue, votes, reset. *)

\* handleSetupComplete; BulkUploadZone mounts with no files.
HandleSetupComplete(config) ==
    /\ stage = "SETUP"
    /\ models' = config.models
    /\ mediaType' = config.type
    /\ isBlind' = config.blind
    /\ stage' = "UPLOAD"
    /\ modelFiles' = << >>
    /\ UNCHANGED <<caseQueue, currentCaseIndex, voteHistory, uploadThrew>>
    /\ UNCHANGED <<zipVars, arenaVars, mediaVars>>

\* handleFolderSelect; the folder input of a model is rendered while the
\* model has no file.
HandleFolderSelect(modelId, fileList) ==
    /\ stage = "UPLOAD"
    /\ modelId \in ModelIds(models)
    /\ FileCount(modelFiles, modelId) = 0
    /\ Len(fileList) <= MaxLoaded - TotalLoaded(modelFiles)
    /\ modelFiles' = (modelId :> FilterValid(fileList, mediaType)) @@ modelFiles
    /\ UNCHANGED <<appVars, zipVars, arenaVars, uploadThrew, mediaVars>>

\* removeFiles; its button is rendered while the model has a file.
RemoveFiles(modelId) ==
    /\ stage = "UPLOAD"
    /\ FileCount(modelFiles, modelId) > 0
    /\ modelFiles' = [id \in DOMAIN modelFiles \ {modelId} |-> modelFiles[id]]
    /\ UNCHANGED <<appVars, zipVars, arenaVars, uploadThrew, mediaVars>>

\* ComparisonArena unmounts: its state and its elements are gone.
\* The URL effect runs for testCase, after the cleanup of the effect
\* before it.
UrlEffect(testCase) ==
    LET loaded == LoadUrls(testCase.sources, 1, << >>,
                           Cleanup(urlCleanup, objectUrls))
    IN  /\ srcUrls' = loaded.urls
        /\ urlCleanup' = CleanupOf(testCase, loaded.urls)
        /\ objectUrls' = loaded.store

ArenaUnmounts ==
    /\ isPlaying' = FALSE
    /\ currentTime' = 0
    /\ duration' = 0
    /\ playbackRate' = DefaultRate
    /\ videoRefs' = << >>
    /\ displayModels' = << >>
    /\ srcUrls' = << >>
    /\ urlCleanup' = NoCleanup
    /\ objectUrls' = Cleanup(urlCleanup, objectUrls)

\* ComparisonArena mounts with these props: the initial state, the effect
\* on the test case, the elements of its sources.
ArenaMountsWith(testCase, ms, type, blind) ==
    /\ isPlaying' = FALSE
    /\ currentTime' = 0
    /\ duration' = 0
    /\ playbackRate' = DefaultRate
    /\ displayModels' \in DisplayOrders(ms, blind)
    /\ videoRefs' = RenderElements(testCase, displayModels', type, DefaultRate)
    /\ UrlEffect(testCase)

ArenaMounts(testCase) == ArenaMountsWith(testCase, models, mediaType, isBlind)

\* The effect on [testCase, ...] after the test case has changed to
\* testCase, and the elements with their new sources.
ArenaNextCase(testCase) ==
    /\ isPlaying' = FALSE
    /\ currentTime' = 0
    /\ duration' = 0
    /\ playbackRate' = playbackRate
    /\ displayModels' \in DisplayOrders(models, isBlind)
    /\ videoRefs' = ReloadElements(videoRefs, displayModels, testCase,
                                   displayModels', mediaType, playbackRate)
    /\ UrlEffect(testCase)

\* handleStartQueue; BulkUploadZone unmounts, ComparisonArena mounts.
HandleStartQueue(queue) ==
    /\ caseQueue' = queue
    /\ currentCaseIndex' = 0
    /\ voteHistory' = << >>
    /\ stage' = "ARENA"
    /\ modelFiles' = << >>
    /\ selectedWinner' = Null
    /\ isRepresentative' = FALSE
    /\ ratings' = IF Len(queue) > 0 THEN InitialRatings(models) ELSE NoRatings
    /\ IF Len(queue) > 0 THEN ArenaMounts(queue[1]) ELSE ArenaUnmounts
    /\ UNCHANGED <<models, mediaType, isBlind, uploadThrew, stitchVars>>

\* disabled={!isReady} of the start button.
StartButtonEnabled == IsReady(modelFiles, models)

\* handleStart.
HandleStart ==
    /\ stage = "UPLOAD"
    /\ StartButtonEnabled
    /\ LET matches == Matches(modelFiles, models)
       IN  IF Len(matches) = 0
           THEN UNCHANGED <<appVars, uploadVars, arenaVars, mediaVars>>
           ELSE IF BuildQueueThrows(modelFiles, models)
                THEN /\ uploadThrew' = TRUE
                     /\ UNCHANGED <<appVars, modelFiles, arenaVars, mediaVars>>
                ELSE HandleStartQueue(BuildQueue(matches, modelFiles, models))
    /\ UNCHANGED <<zipVars>>

\* App renders the arena.
ArenaRendered == stage = "ARENA" /\ currentCaseIndex < Len(caseQueue)

\* The winner buttons of the arena.
SelectWinner(winner) ==
    /\ stage = "ARENA"
    /\ winner \in ModelIds(models) \cup {"TIE"}
    /\ selectedWinner' = winner
    /\ UNCHANGED <<appVars, zipVars, uploadVars, isRepresentative, ratings,
                   mediaVars>>

\* onClick of the winner button at display index idx (from 0).
WinnerClick(idx) ==
    /\ ArenaRendered
    /\ idx + 1 \in 1..Len(displayModels)
    /\ SelectWinner(displayModels[idx + 1].id)

\* onClick of the Tie button.
TieClick == ArenaRendered /\ SelectWinner("TIE")

\* A control of the scoring footer of the slot at display index idx (from
\* 0) calls updateRating with the model of the slot.
FooterUpdate(idx, updates) ==
    /\ ArenaRendered
    /\ idx + 1 \in 1..Len(displayModels)
    /\ ratings' = updateRating(ratings, displayModels[idx + 1].id, updates)
    /\ UNCHANGED <<appVars, zipVars, uploadVars, selectedWinner,
                   isRepresentative, mediaVars>>

\* onClick of a score button.
ScoreClick(idx, scoreVal) ==
    /\ scoreVal \in Scores
    /\ FooterUpdate(idx, [score |-> scoreVal])

\* onClick of the WOW button.
AmazingClick(idx) ==
    /\ idx + 1 \in 1..Len(displayModels)
    /\ FooterUpdate(idx,
          [isAmazing |-> ~RatingOf(ratings, displayModels[idx + 1].id).isAmazing])

\* onChange of the note input.
NoteChange(idx, text) == FooterUpdate(idx, [note |-> text])

\* The representative toggle of the arena.
ToggleRepresentative ==
    /\ stage = "ARENA"
    /\ isRepresentative' = ~isRepresentative
    /\ UNCHANGED <<appVars, zipVars, uploadVars, selectedWinner, ratings,
                   mediaVars>>

\* Faulty variant: the new result is put in front.
PrependVote(history, result) == <<result>> \o history

\* [...voteHistory, result]
AppendVote(history, result) == Append(history, result)

\* Faulty variant: no case has a next case.
HasNextCaseNever(index, queue) == FALSE

\* Faulty variant: the last but one case already ends the queue.
HasNextCaseOffByOne(index, queue) == index < Len(queue) - 2

\* currentCaseIndex < caseQueue.length - 1
HasNextCase(index, queue) == index < Len(queue) - 1

\* handleNextVote; on a new test case the arena's effect clears the
\* winner and the representative flag, after the last one it unmounts.
HandleNextVote(result) ==
    /\ voteHistory' = AppendVote(voteHistory, result)
    /\ IF HasNextCase(currentCaseIndex, caseQueue)
       THEN /\ currentCaseIndex' = currentCaseIndex + 1
            /\ stage' = stage
            /\ ratings' = InitialRatings(models)
            /\ ArenaNextCase(caseQueue[currentCaseIndex + 2])
       ELSE /\ stage' = "RESULTS"
            /\ currentCaseIndex' = currentCaseIndex
            /\ ratings' = NoRatings
            /\ ArenaUnmounts
    /\ selectedWinner' = Null
    /\ isRepresentative' = FALSE
    /\ UNCHANGED <<models, mediaType, isBlind, caseQueue, stitchVars>>

\* disabled={!selectedWinner} of the confirm button.
ConfirmButtonEnabled == selectedWinner # Null

\* Faulty variant: handleConfirm never returns early.
NeverReturnsEarly(winner) == FALSE

\* if (!selectedWinner) return;
ReturnsEarly(winner) == winner = Null

\* handleConfirm, on the test case App renders the arena with.
handleConfirm ==
    /\ stage = "ARENA"
    /\ Len(caseQueue) > 0
    /\ currentCaseIndex < Len(caseQueue)
    /\ IF ReturnsEarly(selectedWinner)
       THEN UNCHANGED <<appVars, arenaVars, mediaVars>>
       ELSE HandleNextVote(MakeVoteResult(caseQueue[currentCaseIndex + 1],
                                          selectedWinner, ratings,
                                          isRepresentative))
    /\ UNCHANGED <<zipVars, uploadVars>>

\* A click on the confirm button.
HandleConfirm ==
    /\ ConfirmButtonEnabled
    /\ handleConfirm

\* handleReset, with the answer to window.confirm.
HandleReset(confirmed) ==
    /\ stage # "SETUP"
    /\ IF confirmed
       THEN /\ stage' = "SETUP"
            /\ caseQueue' = << >>
            /\ voteHistory' = << >>
            /\ models' = << >>
            /\ isBlind' = FALSE
            /\ modelFiles' = << >>
            /\ selectedWinner' = Null
            /\ isRepresentative' = FALSE
            /\ ratings' = NoRatings
            /\ ArenaUnmounts
            /\ UNCHANGED <<mediaType, currentCaseIndex, uploadThrew>>
       ELSE UNCHANGED <<appVars, uploadVars, arenaVars, transportVars>>
    /\ UNCHANGED <<zipVars, stitchVars>>

---------------------------------------------------------------------------
(* ComparisonArena: the transport of the video mode and the events of its  *)
(* <video> elements.                                                       *)

\* The transport controls are rendered.
TransportRendered == ArenaRendered /\ mediaType = "video"

\* The state of the transport, and its next state.
Transport ==
    [isPlaying |-> isPlaying, currentTime |-> currentTime,
     duration |-> duration, playbackRate |-> playbackRate,
     videoRefs |-> videoRefs]

SetTransport(t) ==
    /\ isPlaying' = t.isPlaying
    /\ currentTime' = t.currentTime
    /\ duration' = t.duration
    /\ playbackRate' = t.playbackRate
    /\ videoRefs' = t.videoRefs
    /\ UNCHANGED mountVars
    /\ UNCHANGED <<appVars, zipVars, uploadVars, arenaVars, stitchVars>>

\* togglePlay, from the play button or a click on an element.
TogglePlay ==
    /\ ArenaRendered
    /\ SetTransport(togglePlay(Transport, mediaType))

\* max={duration || 100} of the timeline, capped.
TimelineMax == IF duration = 0 THEN MaxTime ELSE duration

\* handleSeek, from the timeline.
HandleSeek(time) ==
    /\ ArenaRendered
    /\ time \in 0..TimelineMax
    /\ SetTransport(handleSeek(Transport, mediaType, time))

\* Faulty variant: every element has the handler.
HandlesTimeUpdateAll(idx) == TRUE

\* onTimeUpdate={idx === 0 ? handleTimeUpdate : undefined}, idx from 0.
HandlesTimeUpdate(idx) == idx = 0

\* A timeupdate event of the element at display index idx (from 0).
OnTimeUpdate(idx) ==
    /\ TransportRendered
    /\ idx + 1 \in 1..Len(videoRefs)
    /\ videoRefs[idx + 1] # NoElement
    /\ SetTransport(IF HandlesTimeUpdate(idx)
                    THEN handleTimeUpdate(Transport, mediaType)
                    ELSE Transport)

\* changePlaybackRate, from the speed menu.
ChangePlaybackRate(rate) ==
    /\ ArenaRendered
    /\ rate \in PlaybackRates
    /\ SetTransport(changePlaybackRate(Transport, mediaType, rate))

\* onClick of the Reset button.
ResetClick ==
    /\ TransportRendered
    /\ SetTransport([Transport EXCEPT
                        !.isPlaying = FALSE,
                        !.currentTime = 0,
                        !.videoRefs = SeekAll(videoRefs, 0)])

\* Element i has loaded the metadata of its source: its duration is known.
ElementLoadedMetadata(i, d) ==
    /\ TransportRendered
    /\ i \in 1..Len(videoRefs)
    /\ videoRefs[i] # NoElement
    /\ videoRefs[i].duration = 0
    /\ d \in 1..MaxTime
    /\ videoRefs' = [videoRefs EXCEPT ![i] =
                        [@ EXCEPT !.duration = d,
                                  !.currentTime = IF @ > d THEN d ELSE @]]
    /\ UNCHANGED <<isPlaying, currentTime, duration, playbackRate>>
    /\ UNCHANGED mountVars
    /\ UNCHANGED <<appVars, zipVars, uploadVars, arenaVars, stitchVars>>

\* Element i plays on: its playhead advances, and from the end it goes
\* back to the start (the loop attribute).
ElementPlaysOn(i) ==
    /\ TransportRendered
    /\ i \in 1..Len(videoRefs)
    /\ videoRefs[i] # NoElement
    /\ ~videoRefs[i].paused
    /\ videoRefs[i].duration # 0
    /\ videoRefs' = [videoRefs EXCEPT ![i].currentTime =
                        IF @ < videoRefs[i].duration THEN @ + 1 ELSE 0]
    /\ UNCHANGED <<isPlaying, currentTime, duration, playbackRate>>
    /\ UNCHANGED mountVars
    /\ UNCHANGED <<appVars, zipVars, uploadVars, arenaVars, stitchVars>>

\* Test cases in which a model has no file: the sources handleStart would
\* make of folders that lack it.
SlotFolders ==
    { ("m1" :> <<AB_mp4, A_mp4>>) @@ ("m2" :> <<A_mp4>>),
      ("m1" :> <<AB_mp4>>) @@ ("m2" :> <<AB_mp4, A_mp4>>) }

LocalQueues ==
    { BuildQueue(<<GetBaseName(A_mp4.name), GetBaseName(AB_mp4.name)>>,
                 mf, TwoModels) : mf \in SlotFolders }

\* A VideoSource that refers to a remote file by its url.
RemoteSource(src) ==
    [ modelId |-> src.modelId, file |-> Undefined, name |-> src.name,
      url |-> <<"https:", src.name>> ]

\* The queue in which the sources without a file are remote references.
WithRemote(queue) ==
    [ j \in 1..Len(queue) |->
        [ queue[j] EXCEPT !.sources =
            [ k \in 1..Len(@) |->
                IF HasFile(@[k]) THEN @[k] ELSE RemoteSource(@[k]) ] ] ]

\* Test cases in which a model has no source or a remote one.
SlotQueues == LocalQueues \cup { WithRemote(queue) : queue \in LocalQueues }

\* <ComparisonArena models testCase mediaType isBlind .../> rendered with
\* the cases of queue.
RenderArena(config, queue) ==
    /\ stage = "SETUP"
    /\ stage' = "ARENA"
    /\ models' = config.models
    /\ mediaType' = config.type
    /\ isBlind' = config.blind
    /\ caseQueue' = queue
    /\ currentCaseIndex' = 0
    /\ voteHistory' = << >>
    /\ selectedWinner' = Null
    /\ isRepresentative' = FALSE
    /\ ratings' = InitialRatings(config.models)
    /\ ArenaMountsWith(queue[1], config.models, config.type, config.blind)
    /\ UNCHANGED <<zipVars, uploadVars, stitchVars>>

---------------------------------------------------------------------------
(* App: the batch export, one action per segment between two awaits. *)

\* Faulty variant: the button stays enabled during an export.
ExportButtonAlwaysEnabled == TRUE

\* disabled={isProcessingZip} of the batch export button.
ExportButtonEnabled == ~isProcessingZip

\* handleBatchExportZip up to its first await.
HandleBatchExportZip ==
    /\ stage = "RESULTS"
    /\ Len(RepCases(voteHistory)) > 0
    /\ ExportButtonEnabled
    /\ Len(exports) < MaxBatches
    /\ \E extension \in StitchExtensions(mediaType) :
       LET repCases == RepCases(voteHistory)
           p == RunLoop([ pc |-> "start", i |-> 1, repCases |-> repCases,
                          caseQueue |-> caseQueue, models |-> models,
                          mediaType |-> mediaType,
                          extension |-> extension, zip |-> EmptyZip,
                          stitch |-> IdleStitch ])
           log == [ NoBatch EXCEPT
                      !.queue = [j \in 1..Len(caseQueue) |-> caseQueue[j].id],
                      !.marked = [j \in 1..Len(repCases) |-> repCases[j].caseId] ]
       IN  /\ isProcessingZip' = TRUE
           /\ zipProgress' = ProgressOf(p)
           /\ exports' = Append(exports, p)
           /\ batchLog' = LogStart(log, p)
    /\ UNCHANGED <<appVars, uploadVars, arenaVars, mediaVars>>

\* stitchMedia resolves: the artifact is added to the archive and the loop
\* runs to its next await.
StitchResolve(k) ==
    /\ k \in Running("stitching")
    /\ LET p == exports[k]
           testCase == StitchedCase(p)
           name == EntryName(testCase.name, p.extension)
           q == RunLoop([p EXCEPT !.zip = ZipFile(p.zip, name, Artifact(testCase)),
                                  !.i = p.i + 1])
       IN  /\ exports' = [exports EXCEPT ![k] = q]
           /\ zipProgress' = ProgressOf(q)
           /\ batchLog' = LogStart([batchLog EXCEPT !.resolved = @ + 1], q)
    /\ UNCHANGED <<appVars, uploadVars, arenaVars, isProcessingZip, mediaVars>>

\* The catch block and the finally block.
ExportFails(k, log) ==
    /\ exports' = RemoveAt(exports, k)
    /\ batchLog' = [log EXCEPT !.alerts = @ + 1,
                               !.startedAtAlert = Len(log.started)]
    /\ isProcessingZip' = FALSE
    /\ zipProgress' = NoProgress

\* Faulty variant: a rejected composite is skipped and the loop goes on.
AfterRejectSkipping(p) == RunLoop([p EXCEPT !.i = p.i + 1])

\* A rejected await leaves the try block.
AfterReject(p) == [p EXCEPT !.pc = "failed"]

\* stitchMedia rejects.
StitchReject(k) ==
    /\ k \in Running("stitching")
    /\ LET q == AfterReject(exports[k])
           log == [batchLog EXCEPT !.rejected = @ + 1]
       IN  IF q.pc = "failed" THEN ExportFails(k, log)
           ELSE /\ exports' = [exports EXCEPT ![k] = q]
                /\ zipProgress' = ProgressOf(q)
                /\ batchLog' = LogStart(log, q)
                /\ UNCHANGED isProcessingZip
    /\ UNCHANGED <<appVars, uploadVars, arenaVars, mediaVars>>

\* zip.generateAsync resolves: the archive is offered for download, then
\* the finally block.
CompressResolve(k) ==
    /\ k \in Running("compressing")
    /\ exports' = RemoveAt(exports, k)
    /\ batchLog' = [batchLog EXCEPT
                      !.archive = [offered |-> TRUE,
                                  entries |-> GenerateAsync(exports[k].zip)]]
    /\ isProcessingZip' = FALSE
    /\ zipProgress' = NoProgress
    /\ UNCHANGED <<appVars, uploadVars, arenaVars, mediaVars>>

\* zip.generateAsync rejects.
CompressReject(k) ==
    /\ k \in Running("compressing")
    /\ ExportFails(k, batchLog)
    /\ UNCHANGED <<appVars, uploadVars, arenaVars, mediaVars>>

---------------------------------------------------------------------------
(* stitchMedia called directly: a caller that awaits every invocation, and *)
(* the events of the browser.                                              *)

\* The sources of a call: at most n of the two sources of a test case.
StitchSourcePool ==
    { MakeSource(TwoModels[1], GetBaseName(A_mp4.name), "m1" :> <<A_mp4>>),
      MakeSource(TwoModels[2], GetBaseName(A_mov.name), "m2" :> <<A_mov>>) }

StitchInputs(n) == SeqsUpTo(StitchSourcePool, n)

\* The models handed to stitchMedia: the two of SetupScreen, the same with
\* the name of the second one cleared, and the first one alone.
StitchModels ==
    { TwoModels, <<TwoModels[1], [TwoModels[2] EXCEPT !.name = ""]>>,
      <<TwoModels[1]>> }

Settled(s) == s.pc \in {"resolved", "rejected"}

\* The events the invocation s can get from the browser.
CanLoad(s, i) == i \in Indices(s) /\ s.status[i] = "loading"

\* onerror: while the source loads, or, for a video, while it is started
\* or plays.
CanError(s, i) ==
    /\ i \in Indices(s)
    /\ \/ s.status[i] = "loading"
       \/ /\ s.mediaType = "video"
          /\ s.status[i] \in {"starting", "playing", "blocked"}

CanBlob(s) == s.pc = "encoding"

CanPlaySettle(s, i) ==
    i \in Indices(s) /\ s.pc = "starting" /\ s.status[i] = "starting"

CanEnd(s, i) == i \in Indices(s) /\ s.status[i] = "playing"

CanFrame(s) == s.frame

CanStop(s) == s.pc = "stopping"

\* stitchMedia(sources, models, mediaType)
StitchMedia(sources, ms, type) ==
    /\ stitch.pc = "idle" \/ Settled(stitch)
    /\ stitch' = StartStitch(sources, ms, type)
    /\ UNCHANGED <<appVars, zipVars, uploadVars, arenaVars, transportVars>>

\* onload / onloadeddata of source i.
OnSourceLoaded(i, size, ctxOk, supported) ==
    /\ CanLoad(stitch, i)
    /\ stitch' = SourceLoaded(stitch, i, size, ctxOk, supported)
    /\ UNCHANGED <<appVars, zipVars, uploadVars, arenaVars, transportVars>>

\* onerror of source i.
OnSourceError(i) ==
    /\ CanError(stitch, i)
    /\ stitch' = SourceError(stitch, i)
    /\ UNCHANGED <<appVars, zipVars, uploadVars, arenaVars, transportVars>>

\* The callback of toBlob.
OnBlob(blobOk) ==
    /\ CanBlob(stitch)
    /\ stitch' = BlobCallback(stitch, blobOk)
    /\ UNCHANGED <<appVars, zipVars, uploadVars, arenaVars, transportVars>>

\* The promise of play() on source i settles.
OnPlaySettled(i, started) ==
    /\ CanPlaySettle(stitch, i)
    /\ stitch' = PlaySettled(stitch, i, started)
    /\ UNCHANGED <<appVars, zipVars, uploadVars, arenaVars, transportVars>>

\* Source i reaches its end.
OnSourceEnded(i) ==
    /\ CanEnd(stitch, i)
    /\ stitch' = SourceEnded(stitch, i)
    /\ UNCHANGED <<appVars, zipVars, uploadVars, arenaVars, transportVars>>

\* The callback of requestAnimationFrame.
OnAnimationFrame ==
    /\ CanFrame(stitch)
    /\ stitch' = DrawFrame(stitch)
    /\ UNCHANGED <<appVars, zipVars, uploadVars, arenaVars, transportVars>>

\* The stop event of the recorder.
OnRecorderStop ==
    /\ CanStop(stitch)
    /\ stitch' = RecorderOnStop(stitch)
    /\ UNCHANGED <<appVars, zipVars, uploadVars, arenaVars, transportVars>>

---------------------------------------------------------------------------
(* stitchMedia awaited by handleBatchExportZip: the events of the          *)
(* composite that the invocation k of the batch export awaits.             *)

Composite(k) == exports[k].stitch

\* An event takes the composite of invocation k to s: when it settles the
\* composite, the batch export goes on after its await.
CompositeEvent(k, s) ==
    IF s.pc = "resolved" THEN StitchResolve(k)
    ELSE IF s.pc = "rejected" THEN StitchReject(k)
    ELSE /\ exports' = [exports EXCEPT ![k].stitch = s]
         /\ UNCHANGED <<isProcessingZip, zipProgress, batchLog>>
         /\ UNCHANGED <<appVars, uploadVars, arenaVars, mediaVars>>

\* The recorder that is built records the format the invocation resolves
\* with.
ExportSourceLoaded(k, i, size, ctxOk, supported) ==
    /\ k \in Running("stitching")
    /\ CanLoad(Composite(k), i)
    /\ Composite(k).mediaType = "video" /\ RecorderBuilt(supported)
           => ExtensionOf(SelectMimeType(supported)) = exports[k].extension
    /\ CompositeEvent(k, SourceLoaded(Composite(k), i, size, ctxOk, supported))

ExportSourceError(k, i) ==
    /\ k \in Running("stitching")
    /\ CanError(Composite(k), i)
    /\ CompositeEvent(k, SourceError(Composite(k), i))

ExportBlob(k, blobOk) ==
    /\ k \in Running("stitching")
    /\ CanBlob(Composite(k))
    /\ CompositeEvent(k, BlobCallback(Composite(k), blobOk))

ExportPlaySettled(k, i, started) ==
    /\ k \in Running("stitching")
    /\ CanPlaySettle(Composite(k), i)
    /\ CompositeEvent(k, PlaySettled(Composite(k), i, started))

ExportSourceEnded(k, i) ==
    /\ k \in Running("stitching")
    /\ CanEnd(Composite(k), i)
    /\ CompositeEvent(k, SourceEnded(Composite(k), i))

ExportAnimationFrame(k) ==
    /\ k \in Running("stitching")
    /\ CanFrame(Composite(k))
    /\ CompositeEvent(k, DrawFrame(Composite(k)))

ExportRecorderStop(k) ==
    /\ k \in Running("stitching")
    /\ CanStop(Composite(k))
    /\ CompositeEvent(k, RecorderOnStop(Composite(k)))

---------------------------------------------------------------------------
(* Specifications. *)

AllModelIds == ModelIds(ThreeModels)

\* The files a folder selection can still hold within MaxLoaded.
Capacity == MaxLoaded - TotalLoaded(modelFiles)

\* The upload zone with every folder content within the bounds.
NextUpload ==
    \/ \E config \in UploadConfigs : HandleSetupComplete(config)
    \/ \E id \in ModelIds(models), fileList \in UploadFolders(Capacity) :
          HandleFolderSelect(id, fileList)
    \/ \E id \in AllModelIds : RemoveFiles(id)
    \/ HandleStart
    \/ \E confirmed \in BOOLEAN : HandleReset(confirmed)

SpecUpload == Init /\ [][NextUpload]_vars

\* A whole session: setup, upload, arena, results and batch export.
Next ==
    \/ \E config \in SessionConfigs : HandleSetupComplete(config)
    \/ \E id \in ModelIds(models), fileList \in SessionFolders(Capacity) :
          HandleFolderSelect(id, fileList)
    \/ \E id \in AllModelIds : RemoveFiles(id)
    \/ HandleStart
    \/ \E winner \in AllModelIds \cup {"TIE"} : SelectWinner(winner)
    \/ ToggleRepresentative
    \/ HandleConfirm
    \/ \E confirmed \in BOOLEAN : HandleReset(confirmed)
    \/ HandleBatchExportZip
    \/ \E k \in 1..MaxBatches : StitchResolve(k)
    \/ \E k \in 1..MaxBatches : StitchReject(k)
    \/ \E k \in 1..MaxBatches : CompressResolve(k)
    \/ \E k \in 1..MaxBatches : CompressReject(k)

Spec == Init /\ [][Next]_vars

\* The events of one invocation of stitchMedia.
StitchEvents ==
    \/ \E i \in 1..MaxSources, size \in SourceSizes, ctxOk \in BOOLEAN,
          supported \in SupportedSets :
          OnSourceLoaded(i, size, ctxOk, supported)
    \/ \E i \in 1..MaxSources : OnSourceError(i)
    \/ \E blobOk \in BOOLEAN : OnBlob(blobOk)
    \/ \E i \in 1..MaxSources, started \in BOOLEAN : OnPlaySettled(i, started)
    \/ \E i \in 1..MaxSources : OnSourceEnded(i)
    \/ OnAnimationFrame
    \/ OnRecorderStop

\* stitchMedia on its own, with every list of at most MaxSources sources.
NextStitchMedia ==
    \/ \E sources \in StitchInputs(MaxSources), ms \in StitchModels,
          type \in MediaTypes :
          StitchMedia(sources, ms, type)
    \/ StitchEvents

SpecStitch == Init /\ [][NextStitchMedia]_vars

\* A session of two models with the folder a.b.mp4, a.mp4 or the folder
\* a.png, in which every composite of the batch export runs event by event.
BatchFolders == { <<AB_mp4, A_mp4>>, <<A_png>> }

BatchSize == <<100, 50>>

NextBatch ==
    \/ \E type \in {"image", "video"} :
          HandleSetupComplete([models |-> TwoModels, type |-> type,
                               blind |-> FALSE])
    \/ \E id \in ModelIds(models), fileList \in BatchFolders :
          HandleFolderSelect(id, fileList)
    \/ HandleStart
    \/ SelectWinner("m1")
    \/ ToggleRepresentative
    \/ HandleConfirm
    \/ HandleBatchExportZip
    \/ \E k \in 1..MaxBatches, i \in 1..2, ctxOk \in BOOLEAN,
          supported \in SupportedSets :
          ExportSourceLoaded(k, i, BatchSize, ctxOk, supported)
    \/ \E k \in 1..MaxBatches, i \in 1..2 : ExportSourceError(k, i)
    \/ \E k \in 1..MaxBatches, blobOk \in BOOLEAN : ExportBlob(k, blobOk)
    \/ \E k \in 1..MaxBatches, i \in 1..2, started \in BOOLEAN :
          ExportPlaySettled(k, i, started)
    \/ \E k \in 1..MaxBatches, i \in 1..2 : ExportSourceEnded(k, i)
    \/ \E k \in 1..MaxBatches : ExportAnimationFrame(k)
    \/ \E k \in 1..MaxBatches : ExportRecorderStop(k)
    \/ \E k \in 1..MaxBatches : CompressResolve(k)
    \/ \E k \in 1..MaxBatches : CompressReject(k)

\* A session of two models with the folder a.b.mp4, a.mp4 or a.png, in
\* which the transport of the arena is used.
NextArena ==
    \/ \E type \in {"image", "video"}, blind \in BOOLEAN :
          HandleSetupComplete([models |-> TwoModels, type |-> type,
                               blind |-> blind])
    \/ \E id \in ModelIds(models), fileList \in BatchFolders :
          HandleFolderSelect(id, fileList)
    \/ HandleStart
    \/ SelectWinner("m1")
    \/ HandleConfirm
    \/ HandleReset(TRUE)
    \/ TogglePlay
    \/ \E time \in 0..MaxTime : HandleSeek(time)
    \/ \E idx \in 0..1 : OnTimeUpdate(idx)
    \/ \E rate \in PlaybackRates : ChangePlaybackRate(rate)
    \/ ResetClick
    \/ \E i \in 1..2, d \in 1..MaxTime : ElementLoadedMetadata(i, d)
    \/ \E i \in 1..2 : ElementPlaysOn(i)

SpecArena == Init /\ [][NextArena]_vars

\* The arena rendered with test cases in which a model has no source.
NextSlots ==
    \/ \E blind \in BOOLEAN, queue \in SlotQueues :
          RenderArena([models |-> TwoModels, type |-> "video",
                       blind |-> blind], queue)
    \/ SelectWinner("m1")
    \/ HandleConfirm
    \/ HandleReset(TRUE)
    \/ TogglePlay
    \/ \E time \in 0..MaxTime : HandleSeek(time)
    \/ \E idx \in 0..1 : OnTimeUpdate(idx)
    \/ \E rate \in PlaybackRates : ChangePlaybackRate(rate)
    \/ ResetClick
    \/ \E i \in 1..2, d \in 1..MaxTime : ElementLoadedMetadata(i, d)
    \/ \E i \in 1..2 : ElementPlaysOn(i)

SpecSlots == Init /\ [][NextSlots]_vars

\* The text the note inputs receive.
Notes == {"", "n"}

\* A session of two models with the folder a.b.mp4, a.mp4, blind or not,
\* in which the reviewer uses the decision zone and the scoring footers:
\* the score buttons of the first slot, the WOW button and the note input
\* of the second.
NextVote ==
    \/ \E blind \in BOOLEAN :
          HandleSetupComplete([models |-> TwoModels, type |-> "video",
                               blind |-> blind])
    \/ \E id \in ModelIds(models) : HandleFolderSelect(id, <<AB_mp4, A_mp4>>)
    \/ HandleStart
    \/ \E idx \in 0..1 : WinnerClick(idx)
    \/ TieClick
    \/ ToggleRepresentative
    \/ \E scoreVal \in Scores : ScoreClick(0, scoreVal)
    \/ AmazingClick(1)
    \/ \E text \in Notes : NoteChange(1, text)
    \/ HandleConfirm
    \/ HandleReset(TRUE)

SpecVote == Init /\ [][NextVote]_vars

\* Frame callbacks and the recorder's stop event are delivered.
SpecBatch ==
    /\ Init
    /\ [][NextBatch]_vars
    /\ WF_vars(\E k \in 1..MaxBatches : ExportAnimationFrame(k))
    /\ WF_vars(\E k \in 1..MaxBatches : ExportRecorderStop(k))

---------------------------------------------------------------------------
(* Properties of the matcher, checked under SpecUpload. *)

Range(seq) == { seq[i] : i \in 1..Len(seq) }

\* Every configured model has an entry in modelFiles.
AllLoaded == stage = "UPLOAD" /\ DOMAIN modelFiles = ModelIds(models)

\* The base names of the files loaded for a model.
BaseNamesOf(id) == { GetBaseName(modelFiles[id][j].name) : j \in 1..Len(modelFiles[id]) }

\* The base names that occur in the files of every configured model.
NamesInEveryModel ==
    { b \in UNION { BaseNamesOf(id) : id \in ModelIds(models) } :
        \A id \in ModelIds(models) : b \in BaseNamesOf(id) }

StrictlyAscending(names) ==
    \A i, j \in 1..Len(names) : i < j => StrLess(names[i], names[j])

\* C1: when every configured model has a loaded set, the match list holds
\* exactly the base names that occur in every model's set, each once, in
\* ascending code unit order.
C1_MatchesAreSortedIntersection ==
    AllLoaded =>
        LET matches == Matches(modelFiles, models)
        IN  /\ Range(matches) = NamesInEveryModel
            /\ StrictlyAscending(matches)

\* C1, its case: the first model holds two files of one base name, which
\* every other model holds too, and the match list names it.
C1_Witness ==
    /\ AllLoaded
    /\ Len(models) = 3
    /\ LET first == modelFiles[models[1].id]
       IN  /\ Len(first) = 2
           /\ first[1].name # first[2].name
           /\ GetBaseName(first[1].name) = GetBaseName(first[2].name)
    /\ Len(Matches(modelFiles, models)) = 1

\* The readiness flag against the match list and the loaded folders, in a
\* state of the upload zone in which no handler has thrown.
C2_ReadinessState ==
    /\ ~uploadThrew
    /\ stage = "UPLOAD" =>
         LET matches == Matches(modelFiles, models)
             ready == IsReady(modelFiles, models)
         IN  /\ ready <=> /\ Len(matches) > 0
                          /\ \A id \in ModelIds(models) :
                                FileCount(modelFiles, id) >= 1
             /\ ~ready => matches = << >>

\* C2: after any folder selections and removals the readiness flag is true
\* exactly when the match list is non-empty and every configured model has
\* at least one loaded file; when it is false the match list is empty and
\* was computed without a throw; and no step leaves the upload zone for the
\* arena while the flag is false.
C2_Readiness ==
    /\ [](C2_ReadinessState)
    /\ [][ (stage = "UPLOAD" /\ ~IsReady(modelFiles, models))
              => stage' # "ARENA" ]_vars

\* C2, its case: every model has an entry, one of them with no valid file,
\* and the zone is not ready.
C2_Witness ==
    /\ AllLoaded
    /\ \E id \in ModelIds(models) : Len(modelFiles[id]) = 0
    /\ \E id \in ModelIds(models) : Len(modelFiles[id]) > 0
    /\ ~IsReady(modelFiles, models)

\* A queue in which every case has one source per model, in the order of
\* the models, each with a file of that model's folder whose base name is
\* the name of the case.
QueueWellFormed(queue, mf, ms) ==
    \A i \in 1..Len(queue) :
        /\ Len(queue[i].sources) = Len(ms)
        /\ \A k \in 1..Len(ms) :
              LET source == queue[i].sources[k]
              IN  /\ source.modelId = ms[k].id
                  /\ source.file # Undefined
                  /\ source.file \in Range(mf[ms[k].id])
                  /\ GetBaseName(source.file.name) = queue[i].name

\* C3: the queue the matcher starts the arena with holds, in every case,
\* exactly one source per configured model in the configured order, each
\* with a file of that model whose base name is the case name.
C3_SourcesPerVariant ==
    [][ (stage = "UPLOAD" /\ stage' = "ARENA")
           => QueueWellFormed(caseQueue', modelFiles, models) ]_vars

\* C3, its case: the arena was started with two cases.
C3_Witness ==
    /\ stage = "ARENA"
    /\ Len(caseQueue) = 2
    /\ caseQueue[1].sources[2].name # caseQueue[1].sources[1].name

InsertAt(seq, k, x) == SubSeq(seq, 1, k - 1) \o <<x>> \o SubSeq(seq, k, Len(seq))

RECURSIVE OrdersOf(_)
OrdersOf(seq) ==
    IF seq = << >> THEN { << >> }
    ELSE { InsertAt(rest, k, Head(seq)) :
             rest \in OrdersOf(Tail(seq)), k \in 1..Len(seq) }

\* The file maps that hold, for every model, the files of mf in some order.
RECURSIVE Reorderings(_, _)
Reorderings(mf, ids) ==
    IF ids = {} THEN { << >> }
    ELSE LET id == CHOOSE x \in ids : TRUE
         IN  { (id :> files) @@ rest :
                 files \in OrdersOf(mf[id]),
                 rest \in Reorderings(mf, ids \ {id}) }

CaseIds(queue) == [i \in 1..Len(queue) |-> queue[i].id]
CaseNames(queue) == [i \in 1..Len(queue) |-> queue[i].name]

\* C4: the case names, their order and the case identifiers depend on the
\* file sets alone: the matcher run on the same files in any other order
\* gives the same names in the same order under the same identifiers; the
\* identifiers of a started queue are case-0, case-1, ... in ascending name
\* order, pairwise distinct.
C4_Deterministic ==
    /\ AllLoaded =>
         LET queue == BuildQueue(Matches(modelFiles, models), modelFiles, models)
         IN  \A mf \in Reorderings(modelFiles, DOMAIN modelFiles) :
                LET other == BuildQueue(Matches(mf, models), mf, models)
                IN  /\ CaseNames(other) = CaseNames(queue)
                    /\ CaseIds(other) = CaseIds(queue)
    /\ stage = "ARENA" =>
         /\ \A i \in 1..Len(caseQueue) : caseQueue[i].id = CaseId(i - 1)
         /\ \A i, j \in 1..Len(caseQueue) :
               i # j => caseQueue[i].id # caseQueue[j].id
         /\ StrictlyAscending(CaseNames(caseQueue))

\* C4, its case: two folders with the same two matching files in opposite
\* orders.
C4_Witness ==
    /\ AllLoaded
    /\ Len(models) = 2
    /\ Len(Matches(modelFiles, models)) = 2
    /\ modelFiles["m1"] = <<modelFiles["m2"][2], modelFiles["m2"][1]>>

---------------------------------------------------------------------------
(* Properties of the session and of the batch export, checked under Spec. *)

\* C5: in stage RESULTS the vote history holds exactly one VoteResult for
\* every test case of the queue and nothing else.
C5_OneVotePerCase ==
    stage = "RESULTS" =>
        /\ Len(voteHistory) = Len(caseQueue)
        /\ \A i \in 1..Len(caseQueue) :
              Cardinality({ j \in 1..Len(voteHistory) :
                              voteHistory[j].caseId = caseQueue[i].id }) = 1

\* C5, its case: a queue of two cases has been voted through.
C5_Witness ==
    /\ stage = "RESULTS"
    /\ Len(caseQueue) = 2
    /\ voteHistory[1].winnerModelId # voteHistory[2].winnerModelId

\* A step that confirms the vote of the active case.
IsConfirmation ==
    /\ stage = "ARENA"
    /\ \/ currentCaseIndex' # currentCaseIndex
       \/ stage' = "RESULTS"

\* C6: a confirmation appends exactly one element, the vote of the active
\* case, to the end of the history and leaves the earlier elements as they
\* are; any other step leaves the history as it is, except that the start
\* of a queue and a reset empty it.
C6_AppendOnly ==
    [][ /\ IsConfirmation =>
             voteHistory' =
                 Append(voteHistory,
                        MakeVoteResult(caseQueue[currentCaseIndex + 1],
                                       selectedWinner, ratings,
                                       isRepresentative))
        /\ \/ voteHistory' = voteHistory
           \/ IsConfirmation
           \/ /\ voteHistory' = << >>
              /\ \/ stage' = "SETUP"
                 \/ stage = "UPLOAD" /\ stage' = "ARENA" ]_vars

\* C6, its case: the second case of a queue is active with the first vote
\* in the history.
C6_Witness ==
    /\ stage = "ARENA"
    /\ Len(voteHistory) = 1
    /\ selectedWinner # Null

\* The positions of the identifiers ids in the sequence all, in ascending
\* order and without a repeat.
InOrderOf(ids, all) ==
    /\ \A i \in 1..Len(ids) : ids[i] \in Range(all)
    /\ \A i, j \in 1..Len(ids) :
          i < j => \E a, b \in 1..Len(all) :
                      a < b /\ all[a] = ids[i] /\ all[b] = ids[j]

\* C7: the arena shows the cases by ascending queue index, the case at
\* index i when exactly the i cases before it are voted, the queue being in
\* ascending name order; a batch export composites the marked cases in the
\* order they have in the queue.
C7_QueueOrder ==
    /\ stage = "ARENA" =>
         /\ currentCaseIndex = Len(voteHistory)
         /\ currentCaseIndex < Len(caseQueue)
    /\ stage \in {"ARENA", "RESULTS"} =>
         /\ StrictlyAscending(CaseNames(caseQueue))
         /\ \A i \in 1..Len(voteHistory) :
               voteHistory[i].caseId = caseQueue[i].id
    /\ InOrderOf(batchLog.started, batchLog.queue)
    /\ batchLog.started = SubSeq(batchLog.marked, 1, Len(batchLog.started))

\* C7, its case: a batch export has started the composites of two marked
\* cases.
C7_Witness ==
    /\ Len(batchLog.started) = 2
    /\ batchLog.started[1] # batchLog.started[2]

\* C8: at most one composite is in flight, at most one batch export runs,
\* and one runs exactly while isProcessingZip is set.
C8_OneCompositeInFlight ==
    /\ InFlight <= 1
    /\ Len(exports) <= 1
    /\ isProcessingZip <=> Len(exports) = 1

\* C8, its case: the composite of the second marked case is in flight, the
\* first one having settled, while the results page is shown.
C8_Witness ==
    /\ InFlight = 1
    /\ Len(batchLog.started) = 2
    /\ stage = "RESULTS"

\* C9: once the composite of a marked case has failed, the caller has got
\* exactly one failure notification, no composite was started afterwards
\* and no archive is offered.
C9_FailureAbortsBatch ==
    batchLog.rejected > 0 =>
        /\ batchLog.rejected = 1
        /\ batchLog.alerts = 1
        /\ Len(batchLog.started) = batchLog.startedAtAlert
        /\ ~batchLog.archive.offered

\* C9, its case: of two marked cases the composite of the first failed.
C9_Witness ==
    /\ batchLog.rejected = 1
    /\ Len(batchLog.marked) = 2
    /\ Len(batchLog.started) = 1
    /\ exports = << >>

\* C10: an archive is offered only after the composite of every marked
\* case has succeeded, and it holds one entry per marked case.
C10_OneEntryPerMarkedCase ==
    batchLog.archive.offered =>
        /\ batchLog.started = batchLog.marked
        /\ batchLog.rejected = 0
        /\ Cardinality(DOMAIN batchLog.archive.entries) = Len(batchLog.marked)
        /\ \A i \in 1..Len(batchLog.marked) :
              \E n \in DOMAIN batchLog.archive.entries :
                  batchLog.archive.entries[n].caseId = batchLog.marked[i]

\* The entries of the archive the last batch export has offered.
ArchiveEntries == batchLog.archive.entries

C12_EntryNamedByBaseName ==
    \A k \in 1..Len(exports) :
        LET p == exports[k]
        IN  \A n \in DOMAIN p.zip :
                \E j \in 1..Len(p.caseQueue) :
                    /\ p.caseQueue[j].id = p.zip[n].caseId
                    /\ n = p.caseQueue[j].name \o ComparisonSuffix \o p.extension

---------------------------------------------------------------------------
(* Properties of stitchMedia, checked under SpecStitch. *)

\* C13: when an invocation of stitchMedia has settled, resolved or
\* rejected, no object URL it created is live any more.
C13_UrlsRevokedWhenSettled ==
    Settled(stitch) => stitch.urls = {}

\* The sources of the invocation that failed to load.
FailedSources == { i \in Indices(stitch) : stitch.status[i] = "failed" }

Rejected(msg) ==
    /\ stitch.pc = "rejected"
    /\ stitch.result.settled
    /\ ~stitch.result.ok
    /\ stitch.result.error = msg

RECURSIVE WidthFrom(_)
WidthFrom(i) ==
    IF i > Len(stitch.size) THEN 0 ELSE stitch.size[i][1] + WidthFrom(i + 1)

WidthsAddUpTo(total) == WidthFrom(1) = total

GreatestHeight(h) ==
    /\ \E i \in Indices(stitch) : stitch.size[i][2] = h
    /\ \A i \in Indices(stitch) : stitch.size[i][2] <= h

\* C15 as stated: the canvas is as wide as the sum of the native widths
\* and as tall as the greatest native height of the sources.
C15_CanvasIsSumByMax ==
    stitch.canvas.created =>
        /\ WidthsAddUpTo(stitch.canvas.width)
        /\ GreatestHeight(stitch.canvas.height)

\* C15, amended: the canvas is as wide as the sum of the native widths and
\* as tall as the greatest native height, or 720 when that height is 0, in
\* the image path and in the video path.
C15_CanvasIsSumByMaxOrDefault ==
    stitch.canvas.created =>
        /\ WidthsAddUpTo(stitch.canvas.width)
        /\ IF GreatestHeight(0) THEN stitch.canvas.height = DefaultHeight
           ELSE GreatestHeight(stitch.canvas.height)

\* C15, its case: sources of 100x50 and 200x50 on a canvas of 300x50.
C15_Witness ==
    /\ stitch.canvas.created
    /\ stitch.size = << <<100, 50>>, <<200, 50>> >>
    /\ stitch.canvas.width = 300
    /\ stitch.canvas.height = 50

\* Every source of the invocation has reached its end.
EverySourceEnded == \A i \in Indices(stitch) : stitch.status[i] = "ended"

\* C16: in the video path the recorder has been stopped, and the
\* invocation has resolved, only with every source at its end; until then
\* the recorder records and, once drawFrame runs, a next frame is always
\* requested.
C16_RecordsUntilAllEnded ==
    stitch.mediaType = "video" =>
        /\ stitch.recorder = "inactive" => EverySourceEnded
        /\ stitch.pc \in {"stopping", "resolved"} => EverySourceEnded
        /\ stitch.pc = "rendering" =>
              /\ stitch.recorder = "recording"
              /\ stitch.frame

\* C16, its case: frames are drawn with one source at its end and the other
\* still playing.
C16_Witness ==
    /\ stitch.pc = "rendering"
    /\ Len(stitch.sources) = 2
    /\ stitch.status[1] = "ended"
    /\ stitch.status[2] = "playing"

---------------------------------------------------------------------------
(* Properties of a composite within a batch export, checked under          *)
(* SpecBatch.                                                              *)

\* Invocation k of the batch export awaits a video composite whose
\* recorder records.
Recording(k) ==
    /\ k \in Running("stitching")
    /\ Composite(k).mediaType = "video"
    /\ Composite(k).pc \in {"starting", "rendering"}

EveryEnded(k) ==
    \A i \in Indices(Composite(k)) : Composite(k).status[i] = "ended"

\* C17, stopping: with every source at its end the next frame stops the
\* recorder and requests no further frame.
C17_StopsAtNextFrame ==
    \A k \in 1..Len(exports) :
        (Recording(k) /\ EveryEnded(k) /\ exports' # exports) =>
            /\ k \in 1..Len(exports')
            /\ exports'[k].stitch.pc = "stopping"
            /\ exports'[k].stitch.recorder = "inactive"
            /\ ~exports'[k].stitch.frame

\* C17, stalling: while a source has not reached its end the composite
\* stays pending, and the batch export with it.
C17_PendingUntilAllEnded ==
    \A k \in 1..Len(exports) :
        (Recording(k) /\ ~EveryEnded(k)) =>
            /\ k \in 1..Len(exports')
            /\ exports'[k].pc = "stitching"
            /\ exports'[k].i = exports[k].i
            /\ exports'[k].stitch.pc \in {"starting", "rendering"}
            /\ batchLog'.resolved = batchLog.resolved
            /\ batchLog'.archive = batchLog.archive
            /\ isProcessingZip'

\* C17, resolving: the stop event of the recorder resolves the composite
\* with the recorded blob and the extension of the recorder's format, and
\* the batch export goes on.
C17_StopResolves ==
    \A k \in 1..Len(exports) :
        (k \in Running("stitching") /\ Composite(k).pc = "stopping"
            /\ exports' # exports) =>
            /\ batchLog'.resolved = batchLog.resolved + 1
            /\ LET r == RecorderOnStop(Composite(k)).result
               IN  /\ r.settled /\ r.ok
                   /\ DOMAIN r.blob.tiles = Indices(Composite(k))
                   /\ r.extension = exports[k].extension
                   /\ r.extension \in StitchExtensions("video")

\* C17: in the video path, once every source has reached its end the next
\* frame stops the recorder and requests no further frame, and the
\* composite eventually resolves, frame callbacks and recorder events
\* being delivered; while a source has not reached its end the composite
\* does not settle and the batch export does not complete.
C17_ResolvesOnceAllEnded ==
    /\ [][C17_StopsAtNextFrame]_vars
    /\ [][C17_PendingUntilAllEnded]_vars
    /\ [][C17_StopResolves]_vars
    /\ \A n \in 1..2 :
          ((\E k \in 1..Len(exports) :
                Recording(k) /\ EveryEnded(k) /\ batchLog.resolved = n - 1)
             ~> (batchLog.resolved >= n))

\* C17, its case: the recorder of the composite of the second marked case
\* has been stopped with both sources at their end.
C17_Witness ==
    /\ Len(exports) = 1
    /\ Composite(1).pc = "stopping"
    /\ EveryEnded(1)
    /\ batchLog.resolved = 1

---------------------------------------------------------------------------
(* Properties of the transport of the arena, checked under SpecArena.      *)

\* The arena stays mounted and App renders it with another test case.
CaseChanges ==
    /\ stage = "ARENA"
    /\ stage' = "ARENA"
    /\ currentCaseIndex' # currentCaseIndex

\* C18: whenever the active test case changes the play state is false,
\* the displayed time is 0 and the derived duration is 0, while the
\* playback rate stays the rate selected last and is the rate of every
\* element of the new case.
C18_CaseChangeResetsTransport ==
    [][CaseChanges =>
          /\ ~isPlaying'
          /\ currentTime' = 0
          /\ duration' = 0
          /\ playbackRate' = playbackRate
          /\ mediaType = "video" =>
                Len(videoRefs') =
                    Len(caseQueue'[currentCaseIndex' + 1].sources)
          /\ \A i \in 1..Len(videoRefs') :
                videoRefs'[i].playbackRate = playbackRate]_vars

\* C18, its case: the second test case is active, with the transport reset
\* and its elements at the rate 2.0 selected during the first one.
C18_Witness ==
    /\ stage = "ARENA"
    /\ mediaType = "video"
    /\ currentCaseIndex = 1
    /\ Len(voteHistory) = 1
    /\ ~isPlaying /\ currentTime = 0 /\ duration = 0
    /\ playbackRate = 200
    /\ Len(videoRefs) = 2
    /\ \A i \in 1..Len(videoRefs) :
          videoRefs[i] = [paused |-> TRUE, currentTime |-> 0,
                          playbackRate |-> 200, duration |-> 0]

\* Every element is in the play state of the play flag.
InStep == \A i \in 1..Len(videoRefs) : videoRefs[i].paused = ~isPlaying

\* C19: after every toggle each element is in the play state the toggle
\* ordered, the same as the play flag; no operation but the Reset button
\* ends this; and at all times the elements are in one play state, which
\* is playing when the play flag is set.
C19_PlayPauseBroadcast ==
    /\ [][TogglePlay => InStep']_vars
    /\ [][(InStep /\ ~ResetClick) => InStep']_vars
    /\ [](\A i, j \in 1..Len(videoRefs) :
             videoRefs[i].paused = videoRefs[j].paused)
    /\ [](isPlaying => \A i \in 1..Len(videoRefs) : ~videoRefs[i].paused)

\* C19, its case: two elements play after a play, a pause and a play.
C19_Witness ==
    /\ stage = "ARENA"
    /\ isPlaying
    /\ Len(videoRefs) = 2
    /\ \A i \in 1..2 : ~videoRefs[i].paused /\ videoRefs[i].currentTime > 0

\* C20: after a click on Reset no element is playing, every playhead is 0
\* and the play flag is false.
C20_ResetPausesAndRewinds ==
    [][ResetClick =>
          /\ ~isPlaying'
          /\ currentTime' = 0
          /\ \A i \in 1..Len(videoRefs') :
                videoRefs'[i].paused /\ videoRefs'[i].currentTime = 0]_vars

\* The bound elements, by display index from 1.
Bound(refs) == { i \in 1..Len(refs) : refs[i] # NoElement }

\* C21, as claimed: a seek sets the displayed time and the playhead of
\* every bound element to the timestamp itself.
C21_SeekSetsOneTimestamp ==
    [][\A time \in 0..MaxTime :
          (TransportRendered /\ HandleSeek(time)) =>
              /\ currentTime' = time
              /\ \A i \in Bound(videoRefs') :
                    videoRefs'[i].currentTime = time]_vars

\* C21: a seek in video mode sets, in one step that waits for no element,
\* the displayed time to the timestamp and the playhead of every bound
\* element to the same timestamp, or to the element's own end when the
\* timestamp is past it; nothing else of the transport or of an element
\* changes.
C21_SeekBroadcastsOneTimestamp ==
    [][\A time \in 0..MaxTime :
          (TransportRendered /\ HandleSeek(time)) =>
              /\ currentTime' = time
              /\ Bound(videoRefs') = Bound(videoRefs)
              /\ \A i \in Bound(videoRefs) :
                    LET end == videoRefs[i].duration
                    IN  /\ (end = 0 \/ time <= end) =>
                              videoRefs'[i].currentTime = time
                        /\ (end # 0 /\ time > end) =>
                              videoRefs'[i].currentTime = end
                        /\ videoRefs'[i].paused = videoRefs[i].paused
                        /\ videoRefs'[i].playbackRate = videoRefs[i].playbackRate
                        /\ videoRefs'[i].duration = end
              /\ UNCHANGED <<isPlaying, duration, playbackRate>>]_vars

\* C21, its case: after a seek to 2 the displayed time and the first
\* element are at 2 and the second element, which ends at 1, is at 1.
C21_Witness ==
    /\ TransportRendered
    /\ ~isPlaying
    /\ currentTime = 2
    /\ Len(videoRefs) = 2
    /\ videoRefs[1].duration = 2 /\ videoRefs[1].currentTime = 2
    /\ videoRefs[2].duration = 1 /\ videoRefs[2].currentTime = 1
    /\ \A i \in 1..2 : videoRefs[i].paused

\* C22: right after a seek the displayed time and every playhead lie
\* within the duration of the authoritative element, also while the
\* duration has not been derived from it.
C22_SeekStaysWithinDuration ==
    [][\A time \in 0..MaxTime :
          (TransportRendered /\ HandleSeek(time)
             /\ ActiveRef(videoRefs) # NoElement
             /\ ActiveRef(videoRefs).duration # 0) =>
              LET end == ActiveRef(videoRefs).duration
              IN  /\ currentTime' = IF time > end THEN end ELSE time
                  /\ \A i \in Bound(videoRefs') :
                        videoRefs'[i].currentTime <= end]_vars

\* C23: a rate change sets the selected rate and the rate of every bound
\* element to the rate chosen; at all times every bound element of the
\* active case has the selected rate, and the selected rate changes only
\* by a rate change while the arena stays mounted, case transitions
\* included.
C23_RatePersists ==
    /\ [][\A rate \in PlaybackRates :
             (TransportRendered /\ ChangePlaybackRate(rate)) =>
                 /\ playbackRate' = rate
                 /\ \A i \in Bound(videoRefs') :
                       videoRefs'[i].playbackRate = rate]_vars
    /\ [][(ArenaRendered /\ ArenaRendered' /\ playbackRate' # playbackRate) =>
             \E rate \in PlaybackRates : ChangePlaybackRate(rate)]_vars
    /\ [](ArenaRendered =>
             \A i \in Bound(videoRefs) :
                 videoRefs[i].playbackRate = playbackRate)

\* C23, its case: the elements of the second case play at the rate 0.5
\* selected during the first one.
C23_Witness ==
    /\ TransportRendered
    /\ currentCaseIndex = 1
    /\ playbackRate = 50
    /\ isPlaying
    /\ Bound(videoRefs) = {1, 2}
    /\ \A i \in Bound(videoRefs) :
          videoRefs[i].playbackRate = 50 /\ videoRefs[i].currentTime > 0

\* C24: in image mode togglePlay, handleSeek and changePlaybackRate leave
\* the play flag, the displayed time, the duration, the rate and the
\* elements as they are.
C24_ImageModeNoOps ==
    /\ [](ArenaRendered /\ mediaType = "image" =>
             /\ togglePlay(Transport, mediaType) = Transport
             /\ \A time \in 0..MaxTime :
                   handleSeek(Transport, mediaType, time) = Transport
             /\ \A rate \in PlaybackRates :
                   changePlaybackRate(Transport, mediaType, rate) = Transport)
    /\ [][mediaType = "image" /\ mediaType' = "image"
            /\ (\/ TogglePlay
                \/ \E time \in 0..MaxTime : HandleSeek(time)
                \/ \E rate \in PlaybackRates : ChangePlaybackRate(rate))
          => UNCHANGED transportVars]_vars

\* C24, its case: the arena shows a case of an image session, in
\* which the handlers can be called.
C24_Witness ==
    /\ ArenaRendered
    /\ mediaType = "image"
    /\ currentCaseIndex = 0
    /\ selectedWinner = "m1"
    /\ ENABLED TogglePlay
    /\ ENABLED HandleSeek(1)
    /\ ENABLED ChangePlaybackRate(200)
    /\ Transport = [isPlaying |-> FALSE, currentTime |-> 0, duration |-> 0,
                    playbackRate |-> DefaultRate, videoRefs |-> << >>]

\* C25: a timeupdate event of an element at another display index than 0
\* changes neither the displayed time nor the duration; one of the element
\* at display index 0 sets the displayed time to that element's playhead
\* and the duration, when none is derived yet, to that element's duration;
\* a derived duration stays as it is for the rest of the case.
C25_OneAuthoritativeElement ==
    /\ [][\A idx \in 1..2 :
             OnTimeUpdate(idx) => UNCHANGED <<currentTime, duration>>]_vars
    /\ [][OnTimeUpdate(0) =>
             /\ currentTime' = videoRefs[1].currentTime
             /\ duration' = IF duration = 0 THEN videoRefs[1].duration
                            ELSE duration]_vars
    /\ [][(ArenaRendered /\ ArenaRendered' /\ duration # 0
             /\ currentCaseIndex' = currentCaseIndex) =>
             duration' = duration]_vars

\* C25, its case: the displayed time and the duration are those of the
\* first element while the second element, longer, is further on.
C25_Witness ==
    /\ TransportRendered
    /\ Bound(videoRefs) = {1, 2}
    /\ videoRefs[1].duration = 1 /\ videoRefs[2].duration = 2
    /\ videoRefs[1].currentTime = 1 /\ videoRefs[2].currentTime = 2
    /\ currentTime = 1
    /\ duration = 1

---------------------------------------------------------------------------
(* Properties of the slots of the arena, checked under SpecSlots.          *)

\* The test case the arena is rendered with.
ActiveCase == caseQueue[currentCaseIndex + 1]

\* The display indices (from 1) of the models that have a source.
Resolved == { idx \in 1..Len(displayModels) :
                \E k \in 1..Len(ActiveCase.sources) :
                    /\ ActiveCase.sources[k].modelId = displayModels[idx].id
                    /\ \/ HasFile(ActiveCase.sources[k])
                       \/ HasUrl(ActiveCase.sources[k]) }

\* C26: a slot shows "No Source" exactly when its model has no source for
\* the active case; every other slot has its element bound, and a play or
\* pause, a seek and a rate change reach every such element.
C26_NoSourceIsLocal ==
    /\ [](TransportRendered =>
             /\ Bound(videoRefs) = Resolved
             /\ \A idx \in 1..Len(displayModels) :
                   (SlotContent(ActiveCase, displayModels[idx], mediaType)
                       = "No Source") <=> idx \notin Resolved)
    /\ [][(TransportRendered /\ TogglePlay) =>
             \A i \in Resolved : videoRefs'[i].paused = isPlaying]_vars
    /\ [][\A time \in 0..MaxTime :
             (TransportRendered /\ HandleSeek(time)) =>
                 \A i \in Resolved :
                     videoRefs'[i].currentTime \in {time, videoRefs[i].duration}]_vars
    /\ [][\A rate \in PlaybackRates :
             (TransportRendered /\ ChangePlaybackRate(rate)) =>
                 \A i \in Resolved : videoRefs'[i].playbackRate = rate]_vars

\* C26, its case: the slot at display index 0 shows "No Source" and the
\* element of the other slot plays at the rate 2.0, past the start.
C26_Witness ==
    /\ TransportRendered
    /\ Resolved = {2}
    /\ videoRefs[1] = NoElement
    /\ isPlaying
    /\ ~videoRefs[2].paused
    /\ videoRefs[2].playbackRate = 200
    /\ videoRefs[2].currentTime = 2

---------------------------------------------------------------------------
(* Properties of the presentation order, checked under SpecArena.          *)

\* order holds every model of ms exactly once.
IsArrangement(order, ms) ==
    /\ Len(order) = Len(ms)
    /\ \A k \in 1..Len(ms) :
          Cardinality({ idx \in 1..Len(order) : order[idx] = ms[k] }) = 1

\* The two orders of two models.
BothOrders(ms) == { ms, <<ms[2], ms[1]>> }

\* The confirm button leads to another test case.
NextCaseAhead ==
    /\ ArenaRendered
    /\ selectedWinner # Null
    /\ currentCaseIndex < Len(caseQueue) - 1

\* C27: the presentation order is at all times an arrangement of the
\* configured models, each exactly once; without blind mode it is the
\* configured order; in blind mode every case transition draws it anew,
\* whatever the order before.
C27_OrderIsPermutation ==
    /\ [](ArenaRendered =>
             /\ IsArrangement(displayModels, models)
             /\ ~isBlind => displayModels = models)
    /\ [][CaseChanges =>
             /\ IsArrangement(displayModels', models')
             /\ ~isBlind => displayModels' = models]_vars
    /\ [](NextCaseAhead /\ isBlind =>
             \A order \in BothOrders(models) :
                 ENABLED (HandleConfirm /\ displayModels' = order))

\* C27, its case: in blind mode the second case is shown in the reverse
\* of the configured order.
C27_Witness ==
    /\ ArenaRendered
    /\ isBlind
    /\ currentCaseIndex = 1
    /\ Len(voteHistory) = 1
    /\ displayModels = <<models[2], models[1]>>

\* The same models under other names and colors.
Disguised(ms) ==
    [k \in 1..Len(ms) |->
        [ms[k] EXCEPT !.name = ms[Len(ms) + 1 - k].name,
                      !.color = ModelColors[k + 3]]]

\* C28: in blind mode the slot and the winner button at display index i
\* show "Option i+1" and the palette color i, whichever model is there and
\* whatever its name and color: any other order of the models, and the
\* same models under other names and colors, show the same.
C28_BlindLabelsByPosition ==
    (ArenaRendered /\ isBlind) =>
        /\ \A i \in 1..Len(displayModels) :
              /\ Labels(isBlind, displayModels)[i].name = <<"Option ", i>>
              /\ Labels(isBlind, displayModels)[i].color = BLIND_PALETTE[i]
        /\ \A order \in BothOrders(models) \cup BothOrders(Disguised(models)) :
              Labels(isBlind, order) = Labels(isBlind, displayModels)

\* C28, its case: a blind session shows its models in the reverse of the
\* configured order, and without blind mode the labels would tell.
C28_Witness ==
    /\ ArenaRendered
    /\ isBlind
    /\ mediaType = "video"
    /\ displayModels = <<models[2], models[1]>>
    /\ Labels(FALSE, displayModels) # Labels(FALSE, models)

---------------------------------------------------------------------------
(* Properties of the tiles of a composite, checked under SpecStitch.       *)

\* The tiles of the composite stitchMedia has resolved with.
ResolvedTiles == stitch.result.blob.tiles

\* The model models.find gives for source i: the first one with its id.
ModelsOf(i) ==
    { k \in 1..Len(stitch.models) :
        /\ stitch.models[k].id = stitch.sources[i].modelId
        /\ \A h \in 1..(k - 1) :
              stitch.models[h].id # stitch.sources[i].modelId }

\* Tile i shows source i, and starts where the tile before it ends.
TilesInSourceOrder ==
    \A i \in DOMAIN ResolvedTiles :
        /\ ResolvedTiles[i].source = stitch.sources[i]
        /\ i = 1 => ResolvedTiles[i].x = 0
        /\ i > 1 => ResolvedTiles[i].x =
                       ResolvedTiles[i - 1].x + stitch.size[i - 1][1]

\* C30, as claimed: tile i shows source i at the sum of the widths before
\* it and carries the name of the model of source i.
C30_TileCarriesModelName ==
    stitch.pc = "resolved" =>
        /\ DOMAIN ResolvedTiles = 1..Len(stitch.sources)
        /\ TilesInSourceOrder
        /\ \A i \in DOMAIN ResolvedTiles : \A k \in ModelsOf(i) :
              ResolvedTiles[i].label = stitch.models[k].name

\* C30: tile i of a composite shows source i at the sum of the widths of
\* the tiles before it, and carries the name of the model of source i, or
\* "Unknown" when that name is empty or no model has the id of the source;
\* the tiles, labels included, are drawn in the order of the sources.
C30_TileCarriesNameOrUnknown ==
    stitch.pc = "resolved" =>
        /\ DOMAIN ResolvedTiles = 1..Len(stitch.sources)
        /\ TilesInSourceOrder
        /\ \A i \in DOMAIN ResolvedTiles :
              /\ \A k \in ModelsOf(i) :
                    ResolvedTiles[i].label =
                        IF stitch.models[k].name = "" THEN "Unknown"
                        ELSE stitch.models[k].name
              /\ ModelsOf(i) = {} => ResolvedTiles[i].label = "Unknown"

\* C30, its case: a composite of the source of m2, 200 wide, followed by
\* the source of m1.
C30_Witness ==
    /\ stitch.pc = "resolved"
    /\ Len(stitch.sources) = 2
    /\ stitch.models = TwoModels
    /\ stitch.sources[1].modelId = "m2" /\ stitch.sources[2].modelId = "m1"
    /\ stitch.size[1][1] = 200
    /\ ResolvedTiles[2].x = 200
    /\ ResolvedTiles[1].label = TwoModels[2].name
    /\ ResolvedTiles[2].label = TwoModels[1].name


---------------------------------------------------------------------------
(* C31: when none of the recording formats of the preference list is       *)
(* supported, the video composite rejects, no artifact is produced and the *)
(* composite is not tried again: the loaded event that would build the     *)
(* recorder rejects the promise without a blob and without a recorder,     *)
(* and once the promise is rejected for that reason no event of the        *)
(* invocation changes its result or builds a recorder.                     *)

UnsupportedFormat ==
    /\ stitch.pc = "rejected"
    /\ stitch.mediaType = "video"
    /\ stitch.result.error = NotSupportedMsg

C31_UnsupportedFormatRejects ==
    /\ [][\A i \in 1..MaxSources, size \in SourceSizes :
            /\ stitch.mediaType = "video"
            /\ stitch.pc = "loading"
            /\ \A j \in Indices(stitch) \ {i} : stitch.status[j] = "loaded"
            /\ OnSourceLoaded(i, size, TRUE, {})
            => /\ UnsupportedFormat'
               /\ stitch'.result.settled /\ ~stitch'.result.ok
               /\ "blob" \notin DOMAIN stitch'.result
               /\ stitch'.recorder = "none"]_vars
    /\ [][UnsupportedFormat /\ StitchEvents
            => /\ stitch'.result = stitch.result
               /\ stitch'.recorder = "none"
               /\ stitch'.pc = "rejected"]_vars

C31_Witness ==
    /\ UnsupportedFormat
    /\ AllLoadedSources(stitch)
    /\ stitch.ctx = "2d"
    /\ Len(stitch.sources) = MaxSources

---------------------------------------------------------------------------
(* C32: the arena makes object URLs only for the sources of the active     *)
(* case that have a local file, and a remote reference is used as it is;   *)
(* when the case is superseded or the arena is torn down, the URLs it made *)
(* for that case, and no others, are revoked, each once, no remote         *)
(* reference among them, and no object URL of an earlier case stays live.  *)

\* The sources of the case the URL effect ran for last.
EffectSources == urlCleanup.sources

Local(sources) == { k \in 1..Len(sources) : HasFile(sources[k]) }
Remote(sources) ==
    { k \in 1..Len(sources) : ~HasFile(sources[k]) /\ HasUrl(sources[k]) }

IsObjectUrl(u) == u[1] = "blob:"

\* The effect of the active case has made one object URL per local source,
\* all different, all live, and nothing else is live.
OwnsActiveUrls ==
    urlCleanup.pending =>
        /\ \A k \in Local(EffectSources) :
              /\ EffectSources[k].modelId \in DOMAIN srcUrls
              /\ IsObjectUrl(srcUrls[EffectSources[k].modelId])
        /\ \A k \in Remote(EffectSources) :
              srcUrls[EffectSources[k].modelId] = EffectSources[k].url
        /\ objectUrls =
              { srcUrls[EffectSources[k].modelId] : k \in Local(EffectSources) }
        /\ Cardinality(objectUrls) = Cardinality(Local(EffectSources))
        /\ DOMAIN srcUrls =
              { EffectSources[k].modelId :
                  k \in Local(EffectSources) \cup Remote(EffectSources) }

NoDuplicates(seq) ==
    \A i, j \in 1..Len(seq) : seq[i] = seq[j] => i = j

\* The effect of the active case is cleaned up in this step.
EffectEnds ==
    /\ urlCleanup.pending
    /\ currentCaseIndex' # currentCaseIndex \/ stage' # stage

C32_ArenaOwnsItsUrls ==
    /\ [](OwnsActiveUrls /\ (~urlCleanup.pending => objectUrls = {}))
    /\ [][EffectEnds =>
            LET revoked == Revocations(urlCleanup, 1)
                made == { srcUrls[EffectSources[k].modelId] :
                            k \in Local(EffectSources) }
            IN  /\ NoDuplicates(revoked)
                /\ { revoked[j] : j \in 1..Len(revoked) } = made
                /\ made \subseteq objectUrls
                /\ \A j \in 1..Len(revoked) : IsObjectUrl(revoked[j])
                /\ Cardinality(objectUrls') =
                      IF urlCleanup'.pending
                      THEN Cardinality(Local(urlCleanup'.sources))
                      ELSE 0]_vars

\* The arena goes from a case with a local and a remote source to the next
\* case.
C32_Witness ==
    /\ stage = "ARENA"
    /\ currentCaseIndex = 1
    /\ urlCleanup.pending
    /\ Local(EffectSources) # {}
    /\ Remote(caseQueue[1].sources) # {}
    /\ Local(caseQueue[1].sources) # {}

---------------------------------------------------------------------------
(* C33: every VoteResult of the history has a rating for every configured  *)
(* model, with a score of 0, 0.5 or 1, and its winner is the id of a       *)
(* configured model or TIE.                                                *)

C33_ResultsAreComplete ==
    \A j \in 1..Len(voteHistory) :
        /\ DOMAIN voteHistory[j].ratings = ModelIds(models)
        /\ \A id \in ModelIds(models) :
              voteHistory[j].ratings[id].score \in Scores
        /\ voteHistory[j].winnerModelId \in ModelIds(models) \cup {"TIE"}

\* Two results, one a tie and one with a winner, with the scores 0.5 and 1
\* given.
C33_Witness ==
    /\ Len(voteHistory) = 2
    /\ voteHistory[1].winnerModelId = "TIE"
    /\ voteHistory[2].winnerModelId = "m2"
    /\ voteHistory[1].ratings["m1"].score = 5
    /\ voteHistory[2].ratings["m2"].score = 10
    /\ voteHistory[2].ratings["m1"].isAmazing
    /\ isBlind

---------------------------------------------------------------------------
(* C34: when a model has several files with the base name of a case, the   *)
(* source of the case for that model is the first of them in the order of  *)
(* the model's file list, whatever the other models hold.                  *)

\* The positions of the files of a list that have the base name.
Named(files, baseName) ==
    { j \in 1..Len(files) : GetBaseName(files[j].name) = baseName }

\* The file is the one at the least position with the base name.
IsFirstNamed(file, files, baseName) ==
    \E j \in Named(files, baseName) :
        /\ file = files[j]
        /\ \A h \in Named(files, baseName) : j <= h

C34_FirstMatchingFile ==
    [][ (stage = "UPLOAD" /\ stage' = "ARENA") =>
          \A i \in 1..Len(caseQueue') :
             \A k \in 1..Len(models) :
                LET source == caseQueue'[i].sources[k]
                IN  /\ IsFirstNamed(source.file, modelFiles[models[k].id],
                                    caseQueue'[i].name)
                    /\ source.name = source.file.name ]_vars

\* The first model holds a.mov before a.mp4, the start button is enabled,
\* and the queue it starts has a.mov as the first model's source.
C34_Witness ==
    /\ stage = "UPLOAD"
    /\ StartButtonEnabled
    /\ models = TwoModels
    /\ modelFiles["m1"] = <<A_mov, A_mp4>>
    /\ BuildQueue(Matches(modelFiles, models), modelFiles, models)[1]
          .sources[1].file = A_mov

---------------------------------------------------------------------------
(* C35: while the composite of the i-th of T marked cases is in flight the *)
(* progress text is the notification that names this case and the position *)
(* i/T, sent before the composite was started; within a batch the          *)
(* positions notified go up; when the batch ends, with the archive or with *)
(* a failure, the progress text is cleared.                                *)

\* The name, in the queue of invocation p, of its i-th marked case.
MarkedName(p, i) ==
    LET hits == { j \in 1..Len(p.caseQueue) :
                    p.caseQueue[j].id = p.repCases[i].caseId }
    IN  p.caseQueue[CHOOSE j \in hits : \A h \in hits : j <= h].name

C35_ProgressNamesCase ==
    /\ [](\A k \in 1..Len(exports) :
             exports[k].pc = "stitching" =>
                 /\ zipProgress.kind = "processing"
                 /\ zipProgress.position = exports[k].i
                 /\ zipProgress.total = Len(exports[k].repCases)
                 /\ zipProgress.name = MarkedName(exports[k], exports[k].i)
                 /\ batchLog.started[Len(batchLog.started)] =
                       exports[k].repCases[exports[k].i].caseId)
    /\ [][(zipProgress.kind = "processing" /\ zipProgress'.kind = "processing"
             /\ zipProgress' # zipProgress)
            => zipProgress'.position = zipProgress.position + 1]_vars
    /\ [][Len(exports') < Len(exports)
            => zipProgress' = NoProgress /\ ~isProcessingZip']_vars
    /\ [](exports = << >> => zipProgress = NoProgress)

\* The second of two marked cases is being composited.
C35_Witness ==
    /\ Len(exports) = 1
    /\ exports[1].pc = "stitching"
    /\ Len(exports[1].repCases) = 2
    /\ zipProgress.kind = "processing"
    /\ zipProgress.position = 2

---------------------------------------------------------------------------
(* C36: the displayed time follows the first element that is bound: when   *)
(* that element is at another time than the one displayed, its timeupdate  *)
(* event brings the displayed time to it, also when the slot at display    *)
(* index 0 has no source.                                                  *)

\* The display index (from 1) of the first slot with an element.
FirstBound(refs) == CHOOSE i \in Bound(refs) : \A j \in Bound(refs) : i <= j

C36_FirstAvailableDrivesTime ==
    \A idx \in 0..1 :
        ( /\ TransportRendered
          /\ Bound(videoRefs) # {}
          /\ idx + 1 = FirstBound(videoRefs)
          /\ videoRefs[idx + 1].currentTime # currentTime )
        => ENABLED ( /\ OnTimeUpdate(idx)
                     /\ currentTime' = videoRefs[idx + 1].currentTime )

---------------------------------------------------------------------------
(* C37: in blind mode the winner button at a display position records the  *)
(* id of the model whose media that position shows, a score, a WOW flag or  *)
(* a note entered in a slot goes to the rating of the model of that slot    *)
(* and to no other, and the VoteResult of a confirmation carries this       *)
(* winner and these ratings, whatever the order of presentation.            *)

\* The id of the model whose source the slot at display index idx (from 0)
\* shows.
ShownAt(idx) == displayModels[idx + 1].id

\* The ratings change at the model shown at idx only, and there in the
\* named field only, to the value.
RatedAt(idx, field, value) ==
    /\ DOMAIN ratings' = DOMAIN ratings
    /\ \A id \in DOMAIN ratings \ {ShownAt(idx)} : ratings'[id] = ratings[id]
    /\ ratings'[ShownAt(idx)][field] = value
    /\ \A f \in DOMAIN ratings[ShownAt(idx)] \ {field} :
          ratings'[ShownAt(idx)][f] = ratings[ShownAt(idx)][f]

C37_BlindVotesGoToShownModel ==
    /\ [][\A idx \in 0..1 :
            (isBlind /\ WinnerClick(idx)) => selectedWinner' = ShownAt(idx)]_vars
    /\ [][\A scoreVal \in Scores :
            (isBlind /\ ScoreClick(0, scoreVal))
               => RatedAt(0, "score", scoreVal)]_vars
    /\ [][(isBlind /\ AmazingClick(1))
            => RatedAt(1, "isAmazing", ~ratings[ShownAt(1)].isAmazing)]_vars
    /\ [][\A text \in Notes :
            (isBlind /\ NoteChange(1, text)) => RatedAt(1, "note", text)]_vars
    /\ [][(isBlind /\ IsConfirmation) =>
            LET result == voteHistory'[Len(voteHistory')]
            IN  /\ result.winnerModelId = selectedWinner
                /\ result.ratings = ratings
                /\ result.caseId = caseQueue[currentCaseIndex + 1].id]_vars

\* Blind mode with the second model in the first slot: it is the selected
\* winner and has the score 1, the first model has the note.
C37_Witness ==
    /\ isBlind
    /\ ArenaRendered
    /\ ShownAt(0) = "m2"
    /\ selectedWinner = "m2"
    /\ ratings["m2"].score = 10
    /\ ratings["m1"].note = "n"
    /\ ratings["m1"].isAmazing
    /\ Len(voteHistory) = 1
    /\ voteHistory[1].ratings["m1"].score = 5

---------------------------------------------------------------------------
(* C38: on every transition to a new case the selected winner is cleared,  *)
(* the representative flag is false and every model's rating is score 0,   *)
(* not amazing, empty note, so the VoteResult of a case carries only what   *)
(* was entered for it.                                                      *)

\* The arena shows a case after this step that it did not show before.
NewCaseShown ==
    /\ stage' = "ARENA"
    /\ currentCaseIndex' < Len(caseQueue')
    /\ \/ ~ArenaRendered
       \/ currentCaseIndex' # currentCaseIndex
       \/ caseQueue' # caseQueue

\* No judgment is entered: no winner, not representative, one untouched
\* rating per model.
NothingJudged(winner, representative, rated, ms) ==
    /\ winner = Null
    /\ ~representative
    /\ DOMAIN rated = { ms[k].id : k \in 1..Len(ms) }
    /\ \A id \in DOMAIN rated :
          /\ rated[id].score = 0
          /\ ~rated[id].isAmazing
          /\ rated[id].note = ""

C38_NewCaseStartsUnjudged ==
    [][NewCaseShown =>
          NothingJudged(selectedWinner', isRepresentative', ratings', models')]_vars

\* The first case was recorded as representative with a score, a WOW and a
\* note; the second case is shown with nothing judged, and later recorded
\* with none of these.
C38_Witness ==
    /\ Len(voteHistory) = 2
    /\ voteHistory[1].isRepresentative
    /\ \E id \in DOMAIN voteHistory[1].ratings :
          voteHistory[1].ratings[id].score = 10
    /\ \E id \in DOMAIN voteHistory[1].ratings :
          /\ voteHistory[1].ratings[id].isAmazing
          /\ voteHistory[1].ratings[id].note = "n"
    /\ voteHistory[2].caseId # voteHistory[1].caseId
    /\ ~voteHistory[2].isRepresentative
    /\ \A id \in DOMAIN voteHistory[2].ratings :
          /\ voteHistory[2].ratings[id].score = 0
          /\ ~voteHistory[2].ratings[id].isAmazing
          /\ voteHistory[2].ratings[id].note = ""

---------------------------------------------------------------------------
(* C39: whenever the stage is ARENA the queue is not empty and the case    *)
(* index is at least 0 and less than the length of the queue; a step that   *)
(* enters ARENA sets the index to 0 and empties the history, also after a   *)
(* reset of an earlier session; RESULTS is entered exactly by the           *)
(* confirmation of the vote for the last case of the queue; a step that     *)
(* returns to SETUP leaves queue and history empty, and the reset is        *)
(* possible in every other stage.                                           *)

\* The step records the vote for the last case of the queue.
LastCaseConfirmed ==
    /\ stage = "ARENA"
    /\ currentCaseIndex = Len(caseQueue) - 1
    /\ Len(voteHistory') = Len(voteHistory) + 1
    /\ voteHistory'[Len(voteHistory')].caseId = caseQueue[Len(caseQueue)].id

C39_StageMachine ==
    /\ [](stage = "ARENA" =>
            /\ Len(caseQueue) > 0
            /\ 0 <= currentCaseIndex
            /\ currentCaseIndex < Len(caseQueue))
    /\ [][(stage # "ARENA" /\ stage' = "ARENA") =>
            /\ currentCaseIndex' = 0
            /\ voteHistory' = << >>
            /\ Len(caseQueue') > 0]_vars
    /\ [][(stage # "RESULTS" /\ stage' = "RESULTS") <=> LastCaseConfirmed]_vars
    /\ [][(stage # "SETUP" /\ stage' = "SETUP") =>
            /\ caseQueue' = << >>
            /\ voteHistory' = << >>]_vars
    /\ [](stage # "SETUP" =>
            ENABLED (HandleReset(TRUE) /\ stage' = "SETUP"))

\* The reset of a session that had reached its second case: SETUP with
\* queue and history empty and the index still at 1, from where the next
\* start sets it to 0.
C39_Witness ==
    /\ stage = "SETUP"
    /\ currentCaseIndex > 0
    /\ caseQueue = << >>
    /\ voteHistory = << >>

---------------------------------------------------------------------------
(* C40: while no winner is selected, a call of handleConfirm changes       *)
(* neither the vote history nor the case index nor the stage, and the       *)
(* confirm button takes no click; every step that appends a VoteResult is   *)
(* taken with a model of the session or TIE selected, and the result is     *)
(* for the active case with that winner.                                    *)

\* handleConfirm runs and the vote history, the case index or the stage is
\* not what it was.
ConfirmRecords ==
    /\ handleConfirm
    /\ <<voteHistory, currentCaseIndex, stage>>' #
          <<voteHistory, currentCaseIndex, stage>>

C40_NoWinnerNoVote ==
    /\ []((ArenaRendered /\ selectedWinner = Null) =>
            /\ ~ENABLED ConfirmRecords
            /\ ENABLED handleConfirm
            /\ ~ENABLED HandleConfirm)
    /\ [][Len(voteHistory') > Len(voteHistory) =>
            /\ selectedWinner \in ModelIds(models) \cup {"TIE"}
            /\ Len(voteHistory') = Len(voteHistory) + 1
            /\ voteHistory'[Len(voteHistory')].winnerModelId = selectedWinner
            /\ voteHistory'[Len(voteHistory')].caseId =
                  caseQueue[currentCaseIndex + 1].id]_vars

\* The second case is shown with a rating and the representative flag set
\* but no winner selected, after the first case was recorded as a tie.
C40_Witness ==
    /\ ArenaRendered
    /\ selectedWinner = Null
    /\ isRepresentative
    /\ \E id \in DOMAIN ratings : ratings[id].score = 10
    /\ Len(voteHistory) = 1
    /\ voteHistory[1].winnerModelId = "TIE"
    /\ currentCaseIndex = 1

====
